---- MODULE Spec2Model ----
(***************************************************************************)
(* State-machine model of migration-tools/tts-backup-python/tts-backup.py: *)
(* the incremental transportable-tablespace backup orchestrator.           *)
(*                                                                         *)
(* One behaviour is a sequence of invocations of main() against one        *)
(* project directory.  The persistent state is the project file            *)
(* <PROJECT_NAME>.json (psFile) and the source database's SCN clock        *)
(* (dbScn); everything else is the state of the running invocation.        *)
(*                                                                         *)
(* Representation of strings: a comma separated string is modelled by the  *)
(* sequence of its comma separated tokens, so str.split(',') is the        *)
(* sequence itself and the empty string is <<"">> (Python: ''.split(',')   *)
(* = ['']).  A Python list read from JSON is a sequence; the absent key    *)
(* (None) is the empty sequence <<>>, which no split() ever returns.       *)
(***************************************************************************)
EXTENDS Integers, Sequences, FiniteSets, TLC

\* Highest SCN the database clock reaches; every watermark capture uses two.
MaxScn == 4

\* ---------------------------------------------------------------- strings

\* str.upper() on the tokens and flag spellings the model uses
Upper(s) ==
  CASE s = "a" -> "A"
    [] s = "b" -> "B"
    [] s = "true" -> "TRUE"
    [] s = "false" -> "FALSE"
    [] OTHER -> s

\* str.strip() on one token (tokens carry blanks only at their ends)
Strip(s) ==
  CASE s = " A" -> "A"
    [] s = " " -> ""
    [] OTHER -> s

\* ",".join(list)
Join(list) == IF list = <<>> THEN <<"">> ELSE list

\* {ts.strip().upper() for ts in ts_array if ts.strip()}
NormSet(ts_array) ==
  { Upper(Strip(ts_array[i])) : i \in { j \in DOMAIN ts_array : Strip(ts_array[j]) /= "" } }

\* len([ts for ts in s.split(',') if ts.strip()]) > 0
HasEntries(s) == \E i \in DOMAIN s : Strip(s[i]) /= ""

\* the entries of a list
Range(s) == { s[i] : i \in DOMAIN s }

\* [ts.upper() for ts in ts_list]
UpperAll(ts_list) == [i \in DOMAIN ts_list |-> Upper(ts_list[i])]

\* names of the tablespaces of a database that holds more of them than fit
ManyNames ==
  << "T01", "T02", "T03", "T04", "T05", "T06", "T07", "T08",
     "T09", "T10", "T11", "T12", "T13", "T14", "T15", "T16",
     "T17", "T18", "T19", "T20", "T21", "T22", "T23", "T24",
     "T25", "T26", "T27", "T28", "T29", "T30", "T31", "T32",
     "T33", "T34", "T35", "T36", "T37", "T38", "T39", "T40",
     "T41", "T42", "T43", "T44", "T45", "T46", "T47", "T48",
     "T49", "T50", "T51", "T52", "T53", "T54", "T55", "T56",
     "T57", "T58", "T59", "T60", "T61", "T62", "T63", "T64",
     "T65", "T66", "T67", "T68", "T69", "T70", "T71", "T72",
     "T73", "T74", "T75", "T76", "T77", "T78", "T79", "T80",
     "T81", "T82", "T83", "T84", "T85", "T86", "T87", "T88",
     "T89", "T90", "T91", "T92", "T93", "T94" >>

\* Order in which the database lists tablespace names.
Names == <<"A", "B">> \o ManyNames

\* the rows of a query over the names in S, as a ','-joined string
Rows(S) == Join(SelectSeq(Names, LAMBDA n : n \in S))

\* ------------------------------------------------------------------ inputs

\* TABLESPACES of tts-backup-env.txt (blanks already removed by the loader)
TsInputs == { <<"">>, <<"A">>, <<"A", "B">>, <<"b", "a">> }

\* SCHEMAS of tts-backup-env.txt: not configured
SchemaInputs == { <<"">> }

\* schemas of the database, and the one that owns the objects of a tablespace
SchemaNames == <<"SA", "SB">>
Owner(ts) == IF ts = "A" THEN "SA" ELSE "SB"

\* the rows of the owners_in_tablespaces query for ts_list.upper(), ','-joined
OwnersInTablespaces(TABLESPACES) ==
  Join(SelectSeq(SchemaNames,
                 LAMBDA sc : \E i \in DOMAIN TABLESPACES : Owner(Upper(TABLESPACES[i])) = sc))

\* user tablespaces the database may hold when they are fetched
DbTablespaces == { {"A"}, {"A", "B"} }

\* sets of tablespaces the database may hold TDE-encrypted
EncryptedSets == { {}, {"A"} }

\* accepted spellings of FINAL_BACKUP
FinalSpellings == { "TRUE", "true", "FALSE" }

\* accepted spellings of the consent flags
ConsentSpellings == { "TRUE", "FALSE", "false" }

StorageTypes == { "FSS", "OBJECT_STORAGE" }

DbVersions == { "11g", "19c" }

\* ------------------------------------------------------------------- state

VARIABLES
  dirs,       \* the project directory: working directories and bundle files
  procs,      \* two invocations of one project that run at the same time
  psFile,     \* the project file <PROJECT_NAME>.json
  dbScn,      \* the database's current SCN
  pc,         \* next step of the running invocation of main()
  cfg,        \* configuration loaded by Environment
  env,        \* attributes main() and its helpers set on _env
  trace,      \* steps the running invocation has executed, in order
  out,        \* messages printed by the step just executed
  facts,      \* policy gate just passed: findings exist and consent is FALSE
  realm,      \* realm check just passed: what the database and the login answered
  plan,       \* channel construction just made: its inputs and what it returned
  scan,       \* RMAN/expdp command just run: its return code and its log file
  backups,    \* RMAN backup commands the running invocation has issued
  manifest,   \* manifest.log of the running invocation
  bundle,     \* members of the transport bundle the running invocation made
  startPs,    \* psFile as the running invocation found (or created) it
  halt        \* how the invocation ended

persist == <<psFile, dbScn>>
vars == <<psFile, dbScn, pc, cfg, env, trace, out, facts, realm, plan, scan, backups, manifest, startPs, halt, dirs, bundle, procs>>

\* the project file: absent, unreadable (truncated by a failed write), or JSON
NoFile == [st |-> "absent", backup_level |-> 0, incr_scn |-> 0,
           tablespaces |-> <<>>, final_backup_complete |-> FALSE]
Corrupt == [NoFile EXCEPT !.st = "corrupt"]

\* project_data of a new project (lines 440-444)
NewProjectData == [st |-> "ok", backup_level |-> 0, incr_scn |-> 0,
                   tablespaces |-> <<>>, final_backup_complete |-> FALSE]

NoManifest == [written |-> FALSE, backup_level |-> 0, incr_scn |-> 0,
               tablespaces |-> <<>>, schemas |-> <<>>, backup_logfile |-> <<>>]

\* tts-backup-env.txt does not change during an invocation and nothing main()
\* does depends on a value before the first statement that reads it: each value
\* is drawn at that statement and is "unread" before
NoCfg == [DRY_RUN |-> FALSE, TABLESPACES |-> <<"">>, DB_VERSION |-> "unread",
          STORAGE_TYPE |-> "unread", FINAL_BACKUP |-> "unread",
          SCHEMAS |-> <<"unread">>,
          DRCC_REGION |-> "unread"]

NoFacts == [ols |-> FALSE, redaction |-> FALSE, dv |-> FALSE]

\* no realm check was met by the step just executed
NoRealm == [met |-> FALSE, dvrealm_array |-> <<0, 0, 0>>, creds |-> FALSE,
            loginOk |-> FALSE, authorized |-> 0]

\* no channel construction was made by the step just executed
NoPlan == [met |-> FALSE, text |-> "unread", PARALLELISM |-> 0, nproc |-> 1, CLUSTER_MODE |-> "TRUE",
           current_host |-> "none", CPU_COUNT |-> 0, returned |-> FALSE]

\* no directory: TTS_DIR_PATH before _setup_backup_directories
NoPath == [dry |-> FALSE, kind |-> "none", n |-> 0]

\* an empty project directory, no invocation running, the clock at 0
NoDirs == [tree |-> << >>, bundles |-> {}, now |-> 0, runs |-> 0, run |-> 0,
           TTS_DIR_PATH |-> NoPath, TTS_BUNDLE_FILE |-> NoPath,
           fresh |-> TRUE, kept |-> {}, completed |-> {}]

\* state followed by the specifications of single functions only
\* an invocation that has not started
NoProc == [pc |-> "idle", BACKUP_LEVEL |-> 0, INCR_SCN |-> 0, SCNS_ARRAY |-> <<>>,
           backups |-> <<>>]

Procs == {1, 2}

NoProcs == [p \in Procs |-> NoProc]

aside == <<dirs, procs>>

\* a log file: whether it can be read, and for each of its lines the marker
\* texts the line contains
NoLog == [readable |-> TRUE, lines |-> <<>>]

\* no command was run by the step just executed
NoScan == [met |-> FALSE, returncode |-> 0, log |-> NoLog]

\* defaults of _preprocess (lines 346-347, 398-400)
NewEnv == [BACKUP_LEVEL |-> 0, INCR_SCN |-> 0, level0_tablespaces |-> <<>>,
           TABLESPACES |-> <<"">>, requested |-> <<"">>, SCHEMAS |-> <<"">>,
           encrypted_tablespaces |-> <<"">>, unencrypted_tablespaces |-> <<"">>,
           TBS_READ_ONLY |-> "unread", SCNS_ARRAY |-> <<>>, RMAN_LOGFILES |-> <<>>,
           final_backup_complete |-> FALSE,
           host_array |-> <<>>, CHANNEL_STRING |-> <<>>]

Init ==
  /\ psFile = NoFile
  /\ dbScn = 0
  /\ pc = "idle"
  /\ cfg = NoCfg
  /\ env = NewEnv
  /\ trace = <<>>
  /\ out = {}
  /\ facts = NoFacts
  /\ realm = NoRealm
  /\ plan = NoPlan
  /\ scan = NoScan
  /\ dirs = NoDirs
  /\ procs = NoProcs
  /\ bundle = {}
  /\ backups = <<>>
  /\ manifest = NoManifest
  /\ startPs = NoFile
  /\ halt = "none"

\* variant: once the channels are built the SCN capture is entered again
Step_Reenter(name, next) ==
  /\ trace' = Append(trace, name)
  /\ pc' = IF name = "get_channel" THEN "get_scn" ELSE next
  /\ UNCHANGED halt

\* a step of main() is taken: record it and go on
Step(name, next) ==
  /\ trace' = Append(trace, name)
  /\ pc' = next
  /\ UNCHANGED halt

\* a step main() does not take in this invocation
Skip(next) ==
  /\ pc' = next
  /\ UNCHANGED <<trace, halt>>

\* exit(1) / sys.exit(1): SystemExit passes main's handlers, status 1
Exit1(name) ==
  /\ trace' = Append(trace, name)
  /\ pc' = "halted"
  /\ halt' = "exit1"

\* an exception main's handlers catch and print (lines 2257-2268): status 0
Raise(name) ==
  /\ trace' = Append(trace, name)
  /\ pc' = "halted"
  /\ halt' = "exception"

\* exit status of the process once the invocation is over: exit(1) and
\* sys.exit(1) give 1; an exception main's handlers print (lines 2257-2268)
\* lets main return, as a completed run does, and the status is 0
ExitStatus == IF halt = "exit1" THEN 1 ELSE 0

\* the step prints nothing the model follows and is no policy gate
Quiet ==
  out' = {} /\ facts' = NoFacts /\ realm' = NoRealm /\ plan' = NoPlan /\ scan' = NoScan

DryRun == cfg.DRY_RUN

\* FINAL_BACKUP.upper() == "TRUE"
IsFinal(FINAL_BACKUP) == Upper(FINAL_BACKUP) = "TRUE"

\* ---------------------------------------------------------- Environment(...)

\* Environment.__init__ -> _preprocess -> _create_manifest_file
Environment ==
  /\ pc \in {"idle", "done", "halted"}
  /\ UNCHANGED aside
  /\ \E dry \in BOOLEAN, ts \in TsInputs :
       /\ cfg' = [NoCfg EXCEPT !.DRY_RUN = dry, !.TABLESPACES = ts]
       /\ Quiet
       /\ backups' = <<>>
       /\ manifest' = NoManifest
       /\ bundle' = {}
       /\ startPs' = IF ~dry /\ psFile.st = "absent" THEN NewProjectData ELSE psFile
       /\ UNCHANGED dbScn
       /\ IF dry
            THEN \* "DRY_RUN : Skipping Create/Load of project manifest file"
                 /\ env' = [NewEnv EXCEPT !.TABLESPACES = ts]
                 /\ UNCHANGED psFile
                 /\ trace' = <<>>
                 /\ pc' = "get_tablespaces"
                 /\ halt' = "none"
            ELSE CASE psFile.st = "absent" ->
                        /\ psFile' = NewProjectData
                        /\ env' = [NewEnv EXCEPT !.TABLESPACES = ts]
                        /\ trace' = <<"create_state">>
                        /\ pc' = "get_tablespaces"
                        /\ halt' = "none"
                   [] psFile.st = "ok" ->
                        /\ UNCHANGED psFile
                        /\ env' = [NewEnv EXCEPT
                                     !.TABLESPACES = ts,
                                     !.BACKUP_LEVEL = psFile.backup_level,
                                     !.INCR_SCN = psFile.incr_scn,
                                     !.level0_tablespaces = psFile.tablespaces]
                        /\ trace' = <<"read_state">>
                        /\ pc' = "get_tablespaces"
                        /\ halt' = "none"
                   [] OTHER -> \* json.load raises JSONDecodeError (a ValueError)
                        /\ UNCHANGED psFile
                        /\ env' = NewEnv
                        /\ trace' = <<"read_state">>
                        /\ pc' = "halted"
                        /\ halt' = "exception"

\* TTS_SRC_RUN_VALIDATIONS._get_tablespaces
GetTablespaces ==
  /\ pc = "get_tablespaces"
  /\ UNCHANGED aside
  /\ UNCHANGED bundle
  /\ UNCHANGED <<persist, cfg, backups, manifest, startPs>>
  /\ Quiet
  /\ IF env.TABLESPACES /= <<"">>
       THEN /\ env' = [env EXCEPT !.requested = env.TABLESPACES]
            /\ Step("get_tablespaces", "get_schemas")
       ELSE \/ \E db \in DbTablespaces :
                 /\ env' = [env EXCEPT !.TABLESPACES = Rows(db), !.requested = Rows(db)]
                 /\ Step("get_tablespaces", "get_schemas")
            \/ \* "Failed to fetch user tablespaces." (ValueError re-raised)
               /\ Raise("get_tablespaces")
               /\ UNCHANGED env

\* TTS_SRC_RUN_VALIDATIONS._get_schemas (main, line 2074): the owners query runs
\* when SCHEMAS is not configured
GetSchemasFrom(inputs) ==
  /\ pc = "get_schemas"
  /\ UNCHANGED aside
  /\ UNCHANGED bundle
  /\ UNCHANGED <<persist, backups, manifest, startPs>>
  /\ Quiet
  /\ \E SCHEMAS \in inputs, sqlOk \in BOOLEAN :
       /\ cfg' = [cfg EXCEPT !.SCHEMAS = SCHEMAS]
       /\ IF SCHEMAS /= <<"">>
            THEN /\ env' = [env EXCEPT !.SCHEMAS = SCHEMAS]
                 /\ Step("get_schemas", "ols")
            ELSE IF sqlOk
              THEN /\ env' = [env EXCEPT !.SCHEMAS = OwnersInTablespaces(env.TABLESPACES)]
                   /\ Step("get_schemas", "ols")
              ELSE \* "Failed to fetch required users." (ValueError re-raised)
                   /\ Raise("get_schemas")
                   /\ UNCHANGED env

GetSchemas == GetSchemasFrom(SchemaInputs)
\* ----------------------------------------------------------- policy gates

\* variant: a violation exits in dry-run too
FatalOutsideDryRun_Always(dry) == TRUE

\* the tests `DRY_RUN.strip().upper() == "FALSE"` that guard exit(1)
FatalOutsideDryRun(dry) == ~dry

\* line 905: ols_pls and TRANSPORT_TABLES_PROTECTED_BY_OLS_POLICIES.upper() == "FALSE"
OlsViolation(ols_pls, consent) == ols_pls /\ Upper(consent) = "FALSE"

\* variant: the consent flag is compared as spelled
RedactionViolation_AsSpelled(redaction_pls, consent) == redaction_pls /\ consent = "FALSE"

\* line 881: redaction_pls and ...REDACTION_POLICIES.upper() == "FALSE"
RedactionViolation(redaction_pls, consent) == redaction_pls /\ Upper(consent) = "FALSE"

\* line 925: int(dvops_cnt) > 0 and ...DATABASE_VAULT.upper() == "FALSE"
DvopsViolation(dvops_cnt, consent) == dvops_cnt > 0 /\ Upper(consent) = "FALSE"

\* main, lines 2076-2081: redaction and database-vault checks are skipped for 11g
PolicyChecked(version) == version /= "11g"

\* TTS_SRC_RUN_VALIDATIONS._validate_ols_policies
ValidateOlsPolicies ==
  /\ pc = "ols"
  /\ UNCHANGED aside
  /\ UNCHANGED bundle
  /\ UNCHANGED <<persist, cfg, env, backups, manifest, startPs>>
  /\ \E sqlOk \in BOOLEAN, ols_pls \in BOOLEAN, consent \in ConsentSpellings :
       /\ facts' = [NoFacts EXCEPT !.ols = ols_pls /\ Upper(consent) = "FALSE"]
       /\ realm' = NoRealm
       /\ plan' = NoPlan
       /\ scan' = NoScan
       /\ IF ~sqlOk
            THEN /\ out' = {"OLS Policies validation failed."}
                 /\ Exit1("ols")
            ELSE IF OlsViolation(ols_pls, consent)
              THEN /\ out' = {"ols_error"}
                   /\ IF FatalOutsideDryRun(DryRun)
                        THEN Exit1("ols")
                        ELSE Step("ols", "redaction")
              ELSE /\ out' = {}
                   /\ Step("ols", "redaction")

\* TTS_SRC_RUN_VALIDATIONS._validate_redaction_policies (main, lines 2076-2079)
ValidateRedactionPolicies ==
  /\ pc = "redaction"
  /\ UNCHANGED aside
  /\ UNCHANGED bundle
  /\ UNCHANGED <<persist, env, backups, manifest, startPs>>
  /\ \E ver \in DbVersions, sqlOk \in BOOLEAN, redaction_pls \in BOOLEAN,
        consent \in ConsentSpellings :
       /\ cfg' = [cfg EXCEPT !.DB_VERSION = ver]
       /\ facts' = [NoFacts EXCEPT !.redaction = redaction_pls /\ Upper(consent) = "FALSE"]
       /\ realm' = NoRealm
       /\ plan' = NoPlan
       /\ scan' = NoScan
       /\ IF ~PolicyChecked(ver)
            THEN \* redaction_policies_list = ''
                 /\ out' = {}
                 /\ Skip("dvrealm")
            ELSE IF ~sqlOk
              THEN /\ out' = {"Redaction Policies validation failed."}
                   /\ Exit1("redaction")
              ELSE IF RedactionViolation(redaction_pls, consent)
                THEN /\ out' = {"redaction_error"}
                     /\ IF FatalOutsideDryRun(DryRun)
                          THEN Exit1("redaction")
                          ELSE Step("redaction", "dvrealm")
                ELSE /\ out' = {}
                     /\ Step("redaction", "dvrealm")

\* line 940: all(int(x) > 0 for x in dvrealm_array[:3])
IsDvEnabled(dvrealm_array) == \A i \in 1..3 : dvrealm_array[i] > 0

\* what the realm query may report: two of three indicators set, or all three
RealmIndicators == { <<1, 1, 0>>, <<1, 1, 1>> }

\* schemas the secondary login may report as authorized
AuthorizedCounts == 0..2

\* variant: a single authorized schema is not enough
DvrealmGate_AtLeastTwo(dry, sqlOk, active, creds, loginOk, authorized) ==
  IF ~sqlOk THEN [msgs |-> {"Unable to check Database Vault realms."}, end |-> "exit1"]
  ELSE IF ~active THEN [msgs |-> {}, end |-> "ok"]
  ELSE IF ~creds /\ ~dry THEN [msgs |-> {"dvrealm_cred_error"}, end |-> "exit1"]
  ELSE IF ~creds \/ ~loginOk
    THEN [msgs |-> (IF creds THEN {} ELSE {"dvrealm_cred_error"})
                     \cup {"Unable to check schemas protected by Database Vault realms"},
          end |-> "exit1"]
  ELSE IF authorized <= 1
    THEN [msgs |-> {"dvrealm_authorize_error"}, end |-> IF dry THEN "ok" ELSE "exit1"]
  ELSE [msgs |-> {}, end |-> "ok"]

\* the realm part of _validate_dvrealm (lines 931-970): what it prints and how it
\* ends; with no secondary credential the SQL*Plus login of line 959 cannot succeed
DvrealmGate(dry, sqlOk, active, creds, loginOk, authorized) ==
  IF ~sqlOk THEN [msgs |-> {"Unable to check Database Vault realms."}, end |-> "exit1"]
  ELSE IF ~active THEN [msgs |-> {}, end |-> "ok"]
  ELSE IF ~creds /\ ~dry THEN [msgs |-> {"dvrealm_cred_error"}, end |-> "exit1"]
  ELSE IF ~creds \/ ~loginOk
    THEN [msgs |-> (IF creds THEN {} ELSE {"dvrealm_cred_error"})
                     \cup {"Unable to check schemas protected by Database Vault realms"},
          end |-> "exit1"]
  ELSE IF authorized = 0
    THEN [msgs |-> {"dvrealm_authorize_error"}, end |-> IF dry THEN "ok" ELSE "exit1"]
  ELSE [msgs |-> {}, end |-> "ok"]

\* TTS_SRC_RUN_VALIDATIONS._validate_dvrealm (main, lines 2080-2081)
ValidateDvrealm ==
  /\ pc = "dvrealm"
  /\ UNCHANGED aside
  /\ UNCHANGED bundle
  /\ UNCHANGED <<persist, cfg, env, backups, manifest, startPs>>
  /\ \E sqlOk \in BOOLEAN, dvops_cnt \in 0..1, consent \in ConsentSpellings,
        sql2Ok \in BOOLEAN, dvrealm_array \in RealmIndicators, creds \in BOOLEAN,
        loginOk \in BOOLEAN, authorized \in AuthorizedCounts :
       LET gate == DvrealmGate(DryRun, sql2Ok, IsDvEnabled(dvrealm_array), creds,
                               loginOk, authorized) IN
       \* no login succeeds without a credential, none is tried unless all three
       \* indicators are set, and a failed login counts nothing
       /\ loginOk => creds
       /\ loginOk => \A i \in 1..3 : dvrealm_array[i] > 0
       /\ ~loginOk => authorized = 0
       /\ facts' = [NoFacts EXCEPT !.dv = dvops_cnt > 0 /\ Upper(consent) = "FALSE"]
       /\ plan' = NoPlan
       /\ scan' = NoScan
       /\ realm' = [met |-> TRUE, dvrealm_array |-> dvrealm_array, creds |-> creds,
                    loginOk |-> loginOk, authorized |-> authorized]
       /\ IF ~PolicyChecked(cfg.DB_VERSION)
            THEN /\ out' = {}
                 /\ Skip("validate_schemas")
            ELSE IF ~sqlOk
              THEN /\ out' = {"Database Vault protection check failed."}
                   /\ Exit1("dvrealm")
              ELSE IF DvopsViolation(dvops_cnt, consent) /\ FatalOutsideDryRun(DryRun)
                THEN /\ out' = {"dv_error"}
                     /\ Exit1("dvrealm")
                ELSE /\ out' = gate.msgs
                             \cup (IF DvopsViolation(dvops_cnt, consent)
                                     THEN {"dv_error"} ELSE {})
                     /\ IF gate.end = "exit1"
                          THEN Exit1("dvrealm")
                          ELSE Step("dvrealm", "validate_schemas")

\* ------------------------------------------------------- ValidationPipeline

\* TTS_SRC_RUN_VALIDATIONS._validate_schemas: "raise" (ValueError), "exit1"
\* (_print_log_and_exit) or "ok"
SchemasOutcome(dry, commonInScope, sqlOk, requiredCommon, requiredMissing) ==
  IF commonInScope /\ ~dry THEN "raise"
  ELSE IF ~sqlOk THEN "exit1"
  ELSE IF (requiredCommon \/ requiredMissing) /\ ~dry THEN "raise"
  ELSE "ok"

ValidateSchemas ==
  /\ pc = "validate_schemas"
  /\ UNCHANGED aside
  /\ UNCHANGED bundle
  /\ UNCHANGED <<persist, cfg, env, backups, manifest, startPs>>
  /\ facts' = NoFacts
  /\ realm' = NoRealm
  /\ plan' = NoPlan
  /\ scan' = NoScan
  /\ \E commonInScope \in BOOLEAN, sqlOk \in BOOLEAN,
        requiredCommon \in BOOLEAN, requiredMissing \in BOOLEAN :
       LET o == SchemasOutcome(DryRun, commonInScope, sqlOk, requiredCommon, requiredMissing)
       IN CASE o = "raise" -> Raise("validate_schemas") /\ out' = {}
            [] o = "exit1" -> Exit1("validate_schemas") /\ out' = {"Schema validations failed."}
            [] OTHER -> Step("validate_schemas", "drift") /\ out' = {}

\* variant: a drifting list draws the warning but is kept
ValidateTablespacesList_Keep(TABLESPACES, level0_ts_array) ==
  [TABLESPACES |-> TABLESPACES,
   warned |-> NormSet(TABLESPACES) /= NormSet(level0_ts_array)]

\* TTS_SRC_RUN_VALIDATIONS._validate_tablespaces_list: the TABLESPACES to go on
\* with, and whether the drift warning is printed
ValidateTablespacesList(TABLESPACES, level0_ts_array) ==
  LET ts_set == NormSet(TABLESPACES)
      level0_ts_set == NormSet(level0_ts_array)
      missing_ts == level0_ts_set \ ts_set
      new_ts == ts_set \ level0_ts_set
  IN IF missing_ts = {} /\ new_ts = {}
       THEN [TABLESPACES |-> TABLESPACES, warned |-> FALSE]
       ELSE [TABLESPACES |-> Join(level0_ts_array), warned |-> TRUE]

DriftWarning == "WARNING: The tablespace list specified during the level 0 backup must not be altered."

\* _validate_tablespaces, lines 721-723
CheckTablespacesList ==
  /\ pc = "drift"
  /\ UNCHANGED aside
  /\ UNCHANGED bundle
  /\ UNCHANGED <<persist, cfg, backups, manifest, startPs>>
  /\ facts' = NoFacts
  /\ realm' = NoRealm
  /\ plan' = NoPlan
  /\ scan' = NoScan
  /\ IF env.BACKUP_LEVEL = 0
       THEN /\ Skip("validate_tablespaces")
            /\ out' = {}
            /\ UNCHANGED env
       ELSE IF env.level0_tablespaces = <<>>
         THEN \* iterating None: TypeError
              /\ Raise("drift")
              /\ out' = {}
              /\ UNCHANGED env
         ELSE LET r == ValidateTablespacesList(env.TABLESPACES, env.level0_tablespaces) IN
              /\ env' = [env EXCEPT !.TABLESPACES = r.TABLESPACES]
              /\ out' = IF r.warned THEN {DriftWarning} ELSE {}
              /\ Step("drift", "validate_tablespaces")

\* the rest of _validate_tablespaces (lines 725-763) with _run_object_validation
\* and _run_tablespace_validation_script: "raise", "exit1" or "ok"
TablespacesOutcome(dry, version, objSqlOk, objFindings, ignore, tsSqlOk, v11SqlOk) ==
  IF ~objSqlOk THEN "raise"
  ELSE IF objFindings /\ ~ignore /\ ~dry THEN "exit1"
  ELSE IF ~tsSqlOk /\ ~dry THEN "exit1"
  ELSE IF version = "11g" /\ ~v11SqlOk THEN "exit1"
  ELSE "ok"

ValidateTablespaces ==
  /\ pc = "validate_tablespaces"
  /\ UNCHANGED aside
  /\ UNCHANGED bundle
  /\ UNCHANGED <<persist, cfg, env, backups, manifest, startPs>>
  /\ Quiet
  /\ \E objSqlOk \in BOOLEAN, objFindings \in BOOLEAN, ignore \in BOOLEAN,
        tsSqlOk \in BOOLEAN, v11SqlOk \in BOOLEAN :
       LET o == TablespacesOutcome(DryRun, cfg.DB_VERSION, objSqlOk, objFindings,
                                   ignore, tsSqlOk, v11SqlOk)
       IN CASE o = "raise" -> Raise("validate_tablespaces")
            [] o = "exit1" -> Exit1("validate_tablespaces")
            [] OTHER -> Step("validate_tablespaces", "check_buckets")

\* ------------------------------------------------------ main, steps 2 to 5a

\* TTS_SRC_CHECK_STORAGE_BUCKETS (main, lines 2086-2091)
CheckStorageBuckets ==
  /\ pc = "check_buckets"
  /\ UNCHANGED aside
  /\ UNCHANGED bundle
  /\ UNCHANGED <<persist, env, backups, manifest, startPs>>
  /\ Quiet
  /\ \E st \in StorageTypes :
       /\ cfg' = [cfg EXCEPT !.STORAGE_TYPE = st]
       /\ IF st = "OBJECT_STORAGE"
            THEN \/ Step("check_buckets", "create_wallet")
                 \/ Exit1("check_buckets")
            ELSE Skip("gather_data")

\* TTS_SRC_CREATE_WALLET.tts_src_create_backup_wallet (main, lines 2093-2101)
CreateBackupWallet ==
  /\ pc = "create_wallet"
  /\ UNCHANGED aside
  /\ UNCHANGED bundle
  /\ UNCHANGED <<persist, cfg, env, backups, manifest, startPs>>
  /\ Quiet
  /\ \/ Step("create_wallet", "gather_data")
     \/ Exit1("create_wallet")

\* TTS_SRC_GATHER_DATA.tts_src_gather_data and main, lines 2107-2124: the
\* encrypted and unencrypted lists are those of the tablespaces in ts_list
GatherData ==
  /\ pc = "gather_data"
  /\ UNCHANGED aside
  /\ UNCHANGED bundle
  /\ UNCHANGED <<persist, cfg, backups, manifest, startPs>>
  /\ Quiet
  /\ \/ \E enc \in EncryptedSets :
          LET ts == NormSet(env.TABLESPACES) IN
          /\ env' = [env EXCEPT !.encrypted_tablespaces = Rows(ts \cap enc),
                                !.unencrypted_tablespaces = Rows(ts \ enc)]
          /\ Step("gather_data", "create_directory")
     \/ \* "Failed to gather data."
        /\ Exit1("gather_data")
        /\ UNCHANGED env

\* TTS_SRC_DIRECTORY_MANAGER.tts_src_create_directory (main, lines 2126-2132)
\* variant: the backup branch of main is entered whatever DRY_RUN is
AfterDirectory_Always(dry) == "tde_export"

\* main, line 2132: `if _env.DRY_RUN.strip().upper() != "TRUE"` selects the
\* backup branch, the else branch (line 2247) is the dry run's validation export
AfterDirectory(dry) == IF dry THEN "dry_export" ELSE "tde_export"

CreateDirectory ==
  /\ pc = "create_directory"
  /\ UNCHANGED aside
  /\ UNCHANGED bundle
  /\ UNCHANGED <<persist, cfg, env, backups, manifest, startPs>>
  /\ Quiet
  /\ \/ Step("create_directory", AfterDirectory(DryRun))
     \/ Raise("create_directory")

\* --------------------------------------------------------- BackupSequencer

\* variant: the backup starts from the SCN the run has just captured
IncrementalClause_Captured(DB_VERSION, BACKUP_LEVEL, INCR_SCN) ==
  IF DB_VERSION = "11g"
    THEN [kind |-> "level", n |-> IF BACKUP_LEVEL = 0 THEN 0 ELSE 1]
    ELSE [kind |-> "from scn", n |-> env.SCNS_ARRAY[1]]

\* tts_src_backup_tablespaces, lines 1625-1632
IncrementalClause(DB_VERSION, BACKUP_LEVEL, INCR_SCN) ==
  IF DB_VERSION = "11g"
    THEN [kind |-> "level", n |-> IF BACKUP_LEVEL = 0 THEN 0 ELSE 1]
    ELSE [kind |-> "from scn", n |-> INCR_SCN]

\* the backup command tts_src_backup_tablespaces builds for one subset
BackupCommand(backup_type, tablespace_clause) ==
  [backup_type |-> backup_type,
   tablespace_clause |-> UpperAll(tablespace_clause),
   incremental_clause |-> IncrementalClause(cfg.DB_VERSION, env.BACKUP_LEVEL, env.INCR_SCN)]

\* _execute_command (lines 1389-1403): return codes 0 and 5 are success
ExecuteCommand(returncode) == IF returncode = 0 \/ returncode = 5 THEN 0 ELSE 1

\* check_log_for_errors, lines 1536 and 1540: the line is an error marker
IsErrorLine(line) ==
  \/ "RMAN-" \in line /\ "WARNING" \notin line
  \/ "EXPORT" \in line /\ "stopped due to fatal error" \in line

\* the loop of check_log_for_errors (lines 1535-1544) from line i on
RECURSIVE ScanLines(_, _)
ScanLines(lines, i) ==
  IF i > Len(lines) THEN TRUE
  ELSE IF IsErrorLine(lines[i]) THEN FALSE
  ELSE ScanLines(lines, i + 1)

\* check_log_for_errors (lines 1529-1547): False when a line is an error marker
\* or the file cannot be read
CheckLogForErrors(log) == IF ~log.readable THEN FALSE ELSE ScanLines(log.lines, 1)

\* runs of a command, as the return code of the process and the log it wrote:
\* a success, a failing process with a clean log, a process that reports
\* success over a log with an error line
CommandRuns ==
  { [returncode |-> 0, log |-> NoLog],
    [returncode |-> 1, log |-> NoLog],
    [returncode |-> 0, log |-> [readable |-> TRUE, lines |-> << {}, {"RMAN-"} >>]] }

\* variant: the return code alone decides
CommandResult_ExitStatus(return_val, logClean) == return_val

\* value tts_src_backup_tablespaces / tts_src_export_* return: 1 when the log
\* scan finds an error, else the command's return_val (lines 1679-1689)
CommandResult(return_val, logClean) == IF ~logClean THEN 1 ELSE return_val

\* variant: the persisted flag is not consulted
SkipBackups_Never(FINAL_BACKUP, final_backup_complete) == FALSE

\* main, lines 2174-2176: the data backups are skipped
SkipBackups(FINAL_BACKUP, final_backup_complete) ==
  IsFinal(FINAL_BACKUP) /\ final_backup_complete

\* variant: setting the flag also moves the level on
MarkFinalBackupComplete_Advance(project_data) ==
  [project_data EXCEPT !.final_backup_complete = TRUE, !.backup_level = @ + 1]

\* variant: the flag is written without the tablespace list of the file
MarkFinalBackupComplete_NoList(project_data) ==
  [project_data EXCEPT !.final_backup_complete = TRUE, !.tablespaces = <<>>]

\* main, line 2193: project_data['final_backup_complete'] = "TRUE"
MarkFinalBackupComplete(project_data) ==
  [project_data EXCEPT !.final_backup_complete = TRUE]

\* variant: the configured list is persisted, not the validated one
AdvancedProjectData_Configured(BACKUP_LEVEL, next_scn, ts_list, FINAL_BACKUP) ==
  [st |-> "ok", backup_level |-> BACKUP_LEVEL + 1, incr_scn |-> next_scn,
   tablespaces |-> env.requested, final_backup_complete |-> FINAL_BACKUP = "TRUE"]

\* variant: the level is persisted as the run found it
AdvancedProjectData_SameLevel(BACKUP_LEVEL, next_scn, ts_list, FINAL_BACKUP) ==
  [st |-> "ok", backup_level |-> BACKUP_LEVEL, incr_scn |-> next_scn,
   tablespaces |-> ts_list, final_backup_complete |-> FINAL_BACKUP = "TRUE"]

\* variant: the level is taken from the project file as it is at the write
AdvancedProjectData_Reread(BACKUP_LEVEL, next_scn, ts_list, FINAL_BACKUP) ==
  [st |-> "ok", backup_level |-> psFile.backup_level + 1, incr_scn |-> next_scn,
   tablespaces |-> ts_list, final_backup_complete |-> FINAL_BACKUP = "TRUE"]

\* project_data of tts_src_create_manifest, lines 1867-1876
AdvancedProjectData(BACKUP_LEVEL, next_scn, ts_list, FINAL_BACKUP) ==
  [st |-> "ok", backup_level |-> BACKUP_LEVEL + 1, incr_scn |-> next_scn,
   tablespaces |-> ts_list, final_backup_complete |-> FINAL_BACKUP = "TRUE"]

\* tts_src_create_manifest, lines 1812-1815
NextScn(TBS_READ_ONLY, SCNS_ARRAY) ==
  IF TBS_READ_ONLY = "true" THEN SCNS_ARRAY[2] ELSE SCNS_ARRAY[1]

\* `with open(file, 'w') as f: json.dump(data, f)`: the file holds the data, or
\* open() failed and the file is as it was, or open() truncated the file and
\* the write failed
WriteOutcomes == {"written", "intact", "truncated"}

WriteProjectFile(project_data, outcome) ==
  CASE outcome = "written" -> project_data
    [] outcome = "intact" -> psFile
    [] OTHER -> Corrupt

\* TTS_SRC_TDE_KEY_EXPORTER (main, lines 2133-2138)
ExportTdeKeys ==
  /\ pc = "tde_export"
  /\ UNCHANGED aside
  /\ UNCHANGED bundle
  /\ UNCHANGED <<persist, cfg, env, backups, manifest, startPs>>
  /\ Quiet
  /\ IF env.encrypted_tablespaces /= <<"">>
       THEN \/ Step("tde_export", "wallet_copy")
            \/ Exit1("tde_export")
       ELSE Skip("wallet_copy")

\* TTS_SRC_WALLET_COPIER (main, lines 2140-2145): a failed copy is only printed
CopyWallet ==
  /\ pc = "wallet_copy"
  /\ UNCHANGED aside
  /\ UNCHANGED bundle
  /\ UNCHANGED <<persist, cfg, env, backups, manifest, startPs>>
  /\ Quiet
  /\ IF cfg.STORAGE_TYPE = "OBJECT_STORAGE"
       THEN Step("wallet_copy", "get_scn")
       ELSE Skip("get_scn")

\* variant: a failed query is printed and the run goes on
GetScn_GoOn ==
  /\ pc = "get_scn"
  /\ UNCHANGED aside
  /\ UNCHANGED bundle
  /\ UNCHANGED <<psFile, cfg, backups, manifest, startPs>>
  /\ facts' = NoFacts
  /\ realm' = NoRealm
  /\ plan' = NoPlan
  /\ scan' = NoScan
  /\ \/ /\ dbScn + 2 <= MaxScn
        /\ dbScn' = dbScn + 2
        /\ env' = [env EXCEPT !.SCNS_ARRAY = <<dbScn + 1, dbScn + 2>>]
        /\ out' = {}
        /\ Step("get_scn", "get_channel")
     \/ /\ out' = {"SCN gathering failed."}
        /\ Step("get_scn", "get_channel")
        /\ UNCHANGED <<dbScn, env>>

\* TTS_SRC_RMAN_BACKUP.tts_src_get_scn (main, lines 2147-2153): the query returns
\* two SCNs of the database's clock, which moves on
GetScn ==
  /\ pc = "get_scn"
  /\ UNCHANGED aside
  /\ UNCHANGED bundle
  /\ UNCHANGED <<psFile, cfg, backups, manifest, startPs>>
  /\ facts' = NoFacts
  /\ realm' = NoRealm
  /\ plan' = NoPlan
  /\ scan' = NoScan
  /\ \/ /\ dbScn + 2 <= MaxScn
        /\ dbScn' = dbScn + 2
        /\ env' = [env EXCEPT !.SCNS_ARRAY = <<dbScn + 1, dbScn + 2>>]
        /\ out' = {}
        /\ Step("get_scn", "get_channel")
     \/ /\ out' = {"SCN gathering failed."}
        /\ Exit1("get_scn")
        /\ UNCHANGED <<dbScn, env>>

\* Environment._preprocess, line 399
MAX_CHANNELS == 200

\* the host this invocation runs on: socket.gethostname() (line 1485)
CurrentHost == "h1"

Min(a, b) == IF a <= b THEN a ELSE b

\* variant: a quarter of the CPUs, without the cap of 4
CalculateCpuCount_Uncapped(PARALLELISM, CPU_COUNT, nproc, CLUSTER_MODE, host_array) ==
  IF PARALLELISM = 0
    THEN (nproc + 4 - 1) \div 4
    ELSE IF Upper(CLUSTER_MODE) = "FALSE"
           THEN PARALLELISM
           ELSE (PARALLELISM + Len(host_array) - 1) \div Len(host_array)

\* calculate_cpu_count (lines 1513-1527); `//` and \div both round down.
\* _env.CPU_COUNT is 0 when it is read (line 337), so get_cpu_count supplies
\* nproc's answer, or 1 when nproc fails.
CalculateCpuCount(PARALLELISM, CPU_COUNT, nproc, CLUSTER_MODE, host_array) ==
  IF PARALLELISM = 0
    THEN LET cpu_count == IF CPU_COUNT <= 0 THEN nproc ELSE CPU_COUNT
         IN  Min((cpu_count + 4 - 1) \div 4, 4)
    ELSE IF Upper(CLUSTER_MODE) = "FALSE"
           THEN PARALLELISM
           ELSE (PARALLELISM + Len(host_array) - 1) \div Len(host_array)

\* variant: the cap is tested once per round of hosts, not per channel
CapReached_PerRound(count, i) == i = 1 /\ count >= MAX_CHANNELS

\* line 1488: `if count >= self._env.MAX_CHANNELS: break`, tested before the
\* channel of host i is added
CapReached(count, i) == count >= MAX_CHANNELS

\* variant: CLUSTER_MODE FALSE keeps the other hosts as well
SkipHost_Never(CLUSTER_MODE, host_name, current_host) == FALSE

\* lines 1493-1495: a host other than the current one gets no channel when
\* CLUSTER_MODE is FALSE
SkipHost(CLUSTER_MODE, host_name, current_host) ==
  Upper(CLUSTER_MODE) = "FALSE" /\ host_name /= current_host

\* the inner loop of tts_src_get_channel (lines 1487-1508) from host i on, for
\* channel number c; st.error is the ValueError of `host_name, instance_name =
\* ele.split(':')` on an element that is not host:instance
RECURSIVE ChannelRow(_, _, _, _, _, _)
ChannelRow(host_array, i, c, CLUSTER_MODE, current_host, st) ==
  IF i > Len(host_array) THEN st
  ELSE IF CapReached(Len(st.channels), i) THEN st
  ELSE IF Len(host_array[i]) /= 2 THEN [st EXCEPT !.error = TRUE]
  ELSE IF SkipHost(CLUSTER_MODE, host_array[i][1], current_host)
    THEN ChannelRow(host_array, i + 1, c, CLUSTER_MODE, current_host, st)
    ELSE ChannelRow(host_array, i + 1, c, CLUSTER_MODE, current_host,
                    [st EXCEPT !.channels =
                       Append(@, [host_name |-> host_array[i][1],
                                  instance_name |-> host_array[i][2], c |-> c])])

\* the outer loop, `for c in range(1, CPU_COUNT + 1)` (line 1486), for the
\* channel numbers lo..hi in ascending order (the range is halved so that the
\* evaluation stays shallow; the order of the rounds is the loop's)
RECURSIVE ChannelRows(_, _, _, _, _, _)
ChannelRows(host_array, lo, hi, CLUSTER_MODE, current_host, st) ==
  IF lo > hi \/ st.error THEN st
  ELSE IF lo = hi THEN ChannelRow(host_array, 1, lo, CLUSTER_MODE, current_host, st)
  ELSE LET mid == (lo + hi) \div 2
       IN  ChannelRows(host_array, mid + 1, hi, CLUSTER_MODE, current_host,
                       ChannelRows(host_array, lo, mid, CLUSTER_MODE, current_host, st))

\* int(value) for the PARALLELISM texts of the model; int() raises ValueError
\* for any other text
IsInteger(value) ==
  value \in {"-1", "0", "1", "2", "3", "5", "199", "200", "201", "202"}

ParseInt(value) ==
  CASE value = "-1" -> -1
    [] value = "0" -> 0
    [] value = "1" -> 1
    [] value = "2" -> 2
    [] value = "3" -> 3
    [] value = "5" -> 5
    [] value = "199" -> 199
    [] value = "200" -> 200
    [] value = "201" -> 201
    [] value = "202" -> 202

\* _load_env_variables, lines 324-334: the attribute PARALLELISM after the
\* load; a missing or non-integer value is printed and the attribute not set
LoadParallelism(value) ==
  IF value /= "" /\ IsInteger(value)
    THEN [set |-> TRUE, value |-> ParseInt(value)]
    ELSE [set |-> FALSE, value |-> 0]

\* Environment.__getattr__ (lines 148-153) on the attribute that was not set,
\* as main's handler prints it (line 2264)
ParallelismError ==
  "Attribute Error: PARALLELISM is not a valid attribute in the environment configuration."

\* tts_src_get_channel (lines 1456-1511): the channels appended to
\* CHANNEL_STRING, the value returned, or the ValueError raised
ChannelPlan(PARALLELISM, nproc, CLUSTER_MODE, host_array, current_host) ==
  LET CPU_COUNT == CalculateCpuCount(PARALLELISM, 0, nproc, CLUSTER_MODE, host_array)
      st == ChannelRows(host_array, 1, CPU_COUNT, CLUSTER_MODE, current_host,
                        [channels |-> <<>>, error |-> FALSE])
  IN  IF host_array = <<>> \/ CPU_COUNT <= 0
        THEN [CPU_COUNT |-> CPU_COUNT, channels |-> <<>>, returned |-> FALSE, error |-> FALSE]
        ELSE [CPU_COUNT |-> CPU_COUNT, channels |-> st.channels,
              returned |-> ~st.error, error |-> st.error]

\* DB_PROPS_ARRAY[13].split(';'), each element given as its split(':'): an empty
\* property splits into the single element '' (<<"">>), never into no element
EmptyTopology == << <<"">> >>

\* what an invocation of the whole program is given to build channels from:
\* PARALLELISM, nproc's answer, CLUSTER_MODE and the instances of the database
ChannelInputs ==
  { [PARALLELISM |-> "0",  nproc |-> 2, CLUSTER_MODE |-> "TRUE",  host_array |-> << <<"h1", "i1">> >>],
    [PARALLELISM |-> "2",  nproc |-> 2, CLUSTER_MODE |-> "FALSE", host_array |-> << <<"h2", "i2">> >>],
    [PARALLELISM |-> "-1", nproc |-> 2, CLUSTER_MODE |-> "TRUE",  host_array |-> << <<"h2", "i2">> >>],
    [PARALLELISM |-> "0",  nproc |-> 2, CLUSTER_MODE |-> "TRUE",  host_array |-> EmptyTopology],
    [PARALLELISM |-> "",   nproc |-> 2, CLUSTER_MODE |-> "TRUE",  host_array |-> << <<"h1", "i1">> >>] }

\* TTS_SRC_RMAN_BACKUP.tts_src_get_channel (main, lines 2155-2159): main does not
\* look at the value returned; a ValueError ends the invocation in main's handler
GetChannelFrom(inputs) ==
  /\ pc = "get_channel"
  /\ UNCHANGED aside
  /\ UNCHANGED bundle
  /\ UNCHANGED <<persist, cfg, backups, manifest, startPs>>
  /\ facts' = NoFacts
  /\ realm' = NoRealm
  /\ scan' = NoScan
  /\ \E in \in inputs :
       LET loaded == LoadParallelism(in.PARALLELISM)
           p == ChannelPlan(loaded.value, in.nproc, in.CLUSTER_MODE, in.host_array,
                            CurrentHost)
       IN  IF ~loaded.set
             THEN \* line 1515: reading the attribute raises AttributeError
                  /\ plan' = [NoPlan EXCEPT !.text = in.PARALLELISM, !.nproc = in.nproc]
                  /\ env' = [env EXCEPT !.host_array = in.host_array]
                  /\ out' = {ParallelismError}
                  /\ Raise("get_channel")
             ELSE /\ plan' = [met |-> TRUE, text |-> in.PARALLELISM,
                              PARALLELISM |-> loaded.value, nproc |-> in.nproc,
                              CLUSTER_MODE |-> in.CLUSTER_MODE, current_host |-> CurrentHost,
                              CPU_COUNT |-> p.CPU_COUNT, returned |-> p.returned]
                  /\ env' = [env EXCEPT !.host_array = in.host_array,
                                        !.CHANNEL_STRING = p.channels]
                  /\ IF p.error
                       THEN /\ out' = {}
                            /\ Raise("get_channel")
                       ELSE /\ out' = IF p.returned
                                        THEN {"Channel string constructed"}
                                        ELSE {"No instances or CPUs to construct channel string. Exiting..."}
                            /\ Step("get_channel", "fence")

GetChannel == GetChannelFrom(ChannelInputs)

\* main, lines 2168-2176: re-read the project file and decide on the data backups
ReadFinalBackupComplete ==
  /\ pc = "fence"
  /\ UNCHANGED aside
  /\ UNCHANGED bundle
  /\ UNCHANGED <<persist, backups, manifest, startPs>>
  /\ Quiet
  /\ \E fb \in FinalSpellings :
       /\ cfg' = [cfg EXCEPT !.FINAL_BACKUP = fb]
       /\ env' = [env EXCEPT !.final_backup_complete = psFile.final_backup_complete]
       /\ Step("fence", IF SkipBackups(fb, psFile.final_backup_complete)
                          THEN "export_schema" ELSE "backup_encrypted")

\* variant: the encrypted backup is run whether or not the subset has entries
BackupEncrypted_Always ==
  /\ pc = "backup_encrypted"
  /\ UNCHANGED aside
  /\ UNCHANGED bundle
  /\ UNCHANGED <<persist, cfg, manifest, startPs>>
  /\ Quiet
  /\ backups' = Append(backups, BackupCommand("encrypted", env.encrypted_tablespaces))
  /\ env' = [env EXCEPT !.RMAN_LOGFILES = Append(@, "backup_encrypted.log")]
  /\ Step("backup_encrypted", "backup_unencrypted")

\* main, lines 2178-2183
BackupEncryptedFrom(runs) ==
  /\ pc = "backup_encrypted"
  /\ UNCHANGED aside
  /\ UNCHANGED bundle
  /\ UNCHANGED <<persist, cfg, manifest, startPs>>
  /\ out' = {}
  /\ facts' = NoFacts
  /\ realm' = NoRealm
  /\ plan' = NoPlan
  /\ IF HasEntries(env.encrypted_tablespaces)
       THEN CASE env.host_array = <<>> ->
                   \* lines 1551-1553: returns False, which main does not take for 1
                   /\ Step("backup_encrypted", "backup_unencrypted")
                   /\ scan' = NoScan
                   /\ UNCHANGED <<env, backups>>
              [] env.host_array /= <<>> /\ Len(env.host_array[1]) /= 2 ->
                   \* lines 1555-1556: ValueError of the unpacking
                   /\ Raise("backup_encrypted")
                   /\ scan' = NoScan
                   /\ UNCHANGED <<env, backups>>
              [] OTHER ->
                   /\ backups' = Append(backups, BackupCommand("encrypted", env.encrypted_tablespaces))
                   /\ \E run \in runs :
                        LET return_val == ExecuteCommand(run.returncode)
                            logClean == CheckLogForErrors(run.log)
                        IN  /\ scan' = [met |-> TRUE, returncode |-> run.returncode,
                                        log |-> run.log]
                            \* lines 1676-1685: the log name is recorded once the
                            \* scan is clean, before return_val is returned
                            /\ env' = IF logClean
                                        THEN [env EXCEPT !.RMAN_LOGFILES =
                                                Append(@, "backup_encrypted.log")]
                                        ELSE env
                            /\ IF CommandResult(return_val, logClean) = 1
                                 THEN Exit1("backup_encrypted")
                                 ELSE Step("backup_encrypted", "backup_unencrypted")
       ELSE /\ Skip("backup_unencrypted")
            /\ scan' = NoScan
            /\ UNCHANGED <<env, backups>>

BackupEncrypted == BackupEncryptedFrom(CommandRuns)

\* main, lines 2185-2190
BackupUnencryptedFrom(runs) ==
  /\ pc = "backup_unencrypted"
  /\ UNCHANGED aside
  /\ UNCHANGED bundle
  /\ UNCHANGED <<persist, cfg, manifest, startPs>>
  /\ out' = {}
  /\ facts' = NoFacts
  /\ realm' = NoRealm
  /\ plan' = NoPlan
  /\ IF HasEntries(env.unencrypted_tablespaces)
       THEN CASE env.host_array = <<>> ->
                   \* lines 1551-1553: returns False, which main does not take for 1
                   /\ Step("backup_unencrypted", "write_flag")
                   /\ scan' = NoScan
                   /\ UNCHANGED <<env, backups>>
              [] env.host_array /= <<>> /\ Len(env.host_array[1]) /= 2 ->
                   \* lines 1555-1556: ValueError of the unpacking
                   /\ Raise("backup_unencrypted")
                   /\ scan' = NoScan
                   /\ UNCHANGED <<env, backups>>
              [] OTHER ->
                   /\ backups' = Append(backups, BackupCommand("unencrypted", env.unencrypted_tablespaces))
                   /\ \E run \in runs :
                        LET return_val == ExecuteCommand(run.returncode)
                            logClean == CheckLogForErrors(run.log)
                        IN  /\ scan' = [met |-> TRUE, returncode |-> run.returncode,
                                        log |-> run.log]
                            \* lines 1676-1685: the log name is recorded once the
                            \* scan is clean, before return_val is returned
                            /\ env' = IF logClean
                                        THEN [env EXCEPT !.RMAN_LOGFILES =
                                                Append(@, "backup_unencrypted.log")]
                                        ELSE env
                            /\ IF CommandResult(return_val, logClean) = 1
                                 THEN Exit1("backup_unencrypted")
                                 ELSE Step("backup_unencrypted", "write_flag")
       ELSE /\ Skip("write_flag")
            /\ scan' = NoScan
            /\ UNCHANGED <<env, backups>>

BackupUnencrypted == BackupUnencryptedFrom(CommandRuns)

\* main, lines 2192-2195: on a final run the flag is persisted as soon as the
\* data backups are through
WriteFinalBackupComplete ==
  /\ pc = "write_flag"
  /\ UNCHANGED aside
  /\ UNCHANGED bundle
  /\ UNCHANGED <<dbScn, cfg, env, backups, manifest, startPs>>
  /\ Quiet
  /\ IF IsFinal(cfg.FINAL_BACKUP)
       THEN \E outcome \in WriteOutcomes :
              /\ psFile' = WriteProjectFile(MarkFinalBackupComplete(psFile), outcome)
              /\ IF outcome = "written"
                   THEN Step("write_flag", "export_schema")
                   ELSE Raise("write_flag")
       ELSE /\ Skip("export_schema")
            /\ UNCHANGED psFile

\* variant: the metadata exports are run whatever FINAL_BACKUP is
ExportSchema_Always ==
  /\ pc = "export_schema"
  /\ UNCHANGED aside
  /\ UNCHANGED bundle
  /\ UNCHANGED <<persist, cfg, env, backups, manifest, startPs>>
  /\ out' = {}
  /\ facts' = NoFacts
  /\ realm' = NoRealm
  /\ plan' = NoPlan
  /\ \E run \in CommandRuns :
       /\ scan' = [met |-> TRUE, returncode |-> run.returncode, log |-> run.log]
       /\ IF CommandResult(ExecuteCommand(run.returncode), CheckLogForErrors(run.log)) = 1
            THEN Exit1("export_schema")
            ELSE Step("export_schema", "export_tablespaces")

\* TTS_SRC_RMAN_BACKUP.tts_src_export_schema (main, lines 2200-2207)
ExportSchemaFrom(runs) ==
  /\ pc = "export_schema"
  /\ UNCHANGED aside
  /\ UNCHANGED bundle
  /\ UNCHANGED <<persist, cfg, env, backups, manifest, startPs>>
  /\ out' = {}
  /\ facts' = NoFacts
  /\ realm' = NoRealm
  /\ plan' = NoPlan
  /\ IF IsFinal(cfg.FINAL_BACKUP)
       THEN \E run \in runs :
              /\ scan' = [met |-> TRUE, returncode |-> run.returncode, log |-> run.log]
              /\ IF CommandResult(ExecuteCommand(run.returncode),
                                  CheckLogForErrors(run.log)) = 1
                   THEN Exit1("export_schema")
                   ELSE Step("export_schema", "export_tablespaces")
       ELSE /\ Skip("create_manifest")
            /\ scan' = NoScan

ExportSchema == ExportSchemaFrom(CommandRuns)

\* TTS_SRC_RMAN_BACKUP.tts_src_export_tablespaces (main, lines 2209-2215)
ExportTablespacesFrom(runs) ==
  /\ pc = "export_tablespaces"
  /\ UNCHANGED aside
  /\ UNCHANGED bundle
  /\ UNCHANGED <<persist, cfg, env, backups, manifest, startPs>>
  /\ out' = {}
  /\ facts' = NoFacts
  /\ realm' = NoRealm
  /\ plan' = NoPlan
  /\ \E run \in runs :
       /\ scan' = [met |-> TRUE, returncode |-> run.returncode, log |-> run.log]
       /\ IF CommandResult(ExecuteCommand(run.returncode), CheckLogForErrors(run.log)) = 1
            THEN Exit1("export_tablespaces")
            ELSE Step("export_tablespaces", "create_manifest")

ExportTablespaces == ExportTablespacesFrom(CommandRuns)

\* TTS_SRC_RMAN_BACKUP.tts_src_create_manifest (main, lines 2217-2221): writes
\* manifest.log, then the project file.  TBS_READ_ONLY is the database property
\* main stores at lines 2123-2124; this is the statement that reads it
CreateManifest ==
  /\ pc = "create_manifest"
  /\ UNCHANGED aside
  /\ UNCHANGED bundle
  /\ UNCHANGED <<dbScn, cfg, backups, startPs>>
  /\ Quiet
  /\ \E ro \in {"true", "false"} :
       LET ts_list == env.TABLESPACES
           next_scn == NextScn(ro, env.SCNS_ARRAY)
       IN /\ env' = [env EXCEPT !.TBS_READ_ONLY = ro]
          /\ \/ \* manifest.log cannot be written
                /\ Raise("create_manifest")
                /\ UNCHANGED <<psFile, manifest>>
             \/ /\ manifest' = [written |-> TRUE,
                                backup_level |-> env.BACKUP_LEVEL,
                                incr_scn |-> next_scn,
                                tablespaces |-> UpperAll(ts_list),
                                schemas |-> UpperAll(env.SCHEMAS),
                                backup_logfile |-> env.RMAN_LOGFILES]
                /\ \E outcome \in WriteOutcomes :
                     /\ psFile' = WriteProjectFile(
                                    AdvancedProjectData(env.BACKUP_LEVEL, next_scn, ts_list,
                                                        cfg.FINAL_BACKUP), outcome)
                     /\ IF outcome = "written"
                          THEN Step("create_manifest", "create_bundle")
                          ELSE Raise("create_manifest")

\* names of the files of the working directory that go into the bundle
TDE_KEYS_FILE == "tde_keys.exp"
DumpFiles == {"schema.dmp", "tablespace.dmp"}

\* "encrypted.log" in log_file: the logs of the two RMAN backups
IsBackupLog(log_file) == log_file \in {"backup_encrypted.log", "backup_unencrypted.log"}

\* variant: the dumps are added whatever FINAL_BACKUP is
BundleMembers_AllDumps(FINAL_BACKUP, encrypted_tablespaces, STORAGE_TYPE, listdir) ==
  {"manifest.log"} \cup DumpFiles
    \cup { log_file \in listdir : IsBackupLog(log_file) }
    \cup (IF STORAGE_TYPE = "OBJECT_STORAGE" THEN {"cwallet.sso"} ELSE {})
    \cup (IF HasEntries(encrypted_tablespaces) THEN {TDE_KEYS_FILE} ELSE {})

\* tts_src_create_bundle, lines 1907-1931: what tar.add puts into the bundle
BundleMembers(FINAL_BACKUP, encrypted_tablespaces, STORAGE_TYPE, listdir) ==
  {"manifest.log"}
    \cup { log_file \in listdir : IsBackupLog(log_file) }
    \cup (IF STORAGE_TYPE = "OBJECT_STORAGE" THEN {"cwallet.sso"} ELSE {})
    \cup (IF IsFinal(FINAL_BACKUP) THEN DumpFiles ELSE {})
    \cup (IF HasEntries(encrypted_tablespaces) THEN {TDE_KEYS_FILE} ELSE {})

\* TTS_SRC_BUNDLE_MANAGER.tts_src_create_bundle (main, lines 2223-2227)
CreateBundle ==
  /\ pc = "create_bundle"
  /\ UNCHANGED aside
  /\ UNCHANGED <<persist, cfg, env, backups, manifest, startPs>>
  /\ Quiet
  /\ \/ /\ bundle' = BundleMembers(cfg.FINAL_BACKUP, env.encrypted_tablespaces,
                                     cfg.STORAGE_TYPE, Range(env.RMAN_LOGFILES))
        /\ Step("create_bundle", "cleanup")
     \/ \* "An error occurred while creating the bundle"
        /\ bundle' = {}
        /\ Exit1("create_bundle")

\* variant: every run removes the project file
RemoveProjectFile_Always(FINAL_BACKUP) == TRUE

\* main, line 2230: the test that guards os.remove(_env.TTS_PROJECT_FILE)
RemoveProjectFile(FINAL_BACKUP) == IsFinal(FINAL_BACKUP)

\* main, lines 2229-2236: on a final run the project file is removed and the
\* directory object dropped
Cleanup ==
  /\ pc = "cleanup"
  /\ UNCHANGED aside
  /\ UNCHANGED bundle
  /\ UNCHANGED <<dbScn, cfg, env, backups, manifest, startPs>>
  /\ Quiet
  /\ IF RemoveProjectFile(cfg.FINAL_BACKUP)
       THEN /\ psFile' = NoFile
            /\ \/ Step("cleanup", "upload")
               \/ \* "Directory drop failed" (RuntimeError)
                  Raise("cleanup")
       ELSE /\ Skip("upload")
            /\ UNCHANGED psFile

\* what cp writes when it cannot copy the bundle to the mount
CpError == "cp: cannot create regular file"

\* TTS_SRC_BUNDLE_MANAGER.tts_src_upload_bundle (main, lines 2238-2242): the
\* status of the put is checked, the status of cp is not
UploadBundle ==
  /\ pc = "upload"
  /\ UNCHANGED aside
  /\ UNCHANGED bundle
  /\ UNCHANGED <<persist, cfg, env, backups, manifest, startPs>>
  /\ facts' = NoFacts
  /\ realm' = NoRealm
  /\ plan' = NoPlan
  /\ scan' = NoScan
  /\ \E stored \in BOOLEAN :
       IF cfg.STORAGE_TYPE = "OBJECT_STORAGE"
         THEN IF stored
                THEN /\ out' = {"Bundle uploaded successfully"}
                     /\ Step("upload", "done")
                ELSE /\ out' = {"Error occurred during the upload_bundle"}
                     /\ Exit1("upload")
         ELSE \* os.system(cp ...): cp reports its failure on the terminal, the
              \* status os.system returns is dropped
              /\ out' = IF stored
                          THEN {"Bundle copied successfully"}
                          ELSE {CpError, "Bundle copied successfully"}
              /\ Step("upload", "done")

\* main, lines 2246-2255: the validation export of a dry run
DryRunExport ==
  /\ pc = "dry_export"
  /\ UNCHANGED aside
  /\ UNCHANGED bundle
  /\ UNCHANGED <<persist, cfg, env, backups, manifest, startPs>>
  /\ facts' = NoFacts
  /\ realm' = NoRealm
  /\ plan' = NoPlan
  /\ IF cfg.DB_VERSION /= "11g"
       THEN \E run \in CommandRuns :
              /\ scan' = [met |-> TRUE, returncode |-> run.returncode, log |-> run.log]
              /\ out' = (IF CommandResult(ExecuteCommand(run.returncode),
                                          CheckLogForErrors(run.log)) = 1
                           THEN {"Export Tablespace metadata Failed."} ELSE {})
                        \cup {"Dry Run Completed Successfully"}
              /\ Step("dry_export", "done")
       ELSE /\ out' = {"Dry Run Completed Successfully"}
            /\ scan' = NoScan
            /\ Skip("done")

Next ==
  \/ Environment
  \/ GetTablespaces
  \/ GetSchemas
  \/ ValidateOlsPolicies
  \/ ValidateRedactionPolicies
  \/ ValidateDvrealm
  \/ ValidateSchemas
  \/ CheckTablespacesList
  \/ ValidateTablespaces
  \/ CheckStorageBuckets
  \/ CreateBackupWallet
  \/ GatherData
  \/ CreateDirectory
  \/ ExportTdeKeys
  \/ CopyWallet
  \/ GetScn
  \/ GetChannel
  \/ ReadFinalBackupComplete
  \/ BackupEncrypted
  \/ BackupUnencrypted
  \/ WriteFinalBackupComplete
  \/ ExportSchema
  \/ ExportTablespaces
  \/ CreateManifest
  \/ CreateBundle
  \/ Cleanup
  \/ UploadBundle
  \/ DryRunExport

Spec == Init /\ [][Next]_vars

\* ------------------------------------------------- tablespace-count ceiling

\* _validate_tablespace_count, lines 850-857
TsLimit(DRCC_REGION) == IF Upper(DRCC_REGION) = "TRUE" THEN 93 ELSE 23

\* _validate_tablespaces, line 727: ts_count = len(ts_array)
TsCount(TABLESPACES) == Len(TABLESPACES)

\* TTS_SRC_RUN_VALIDATIONS._validate_tablespace_count: "exit1" or "ok".  No
\* statement of the program calls it.
ValidateTablespaceCount(ts_count, DRCC_REGION, dry) ==
  IF ts_count > TsLimit(DRCC_REGION) /\ ~dry THEN "exit1" ELSE "ok"

\* TABLESPACES lists at the ceiling and one past it
CountInputs ==
  { SubSeq(ManyNames, 1, n) :
      n \in { TsLimit("FALSE"), TsLimit("FALSE") + 1, TsLimit("TRUE") + 1 } }

\* the first invocation for a project, as Environment() leaves it, with a long
\* TABLESPACES list
CountInit ==
  \E dry \in BOOLEAN, ts \in CountInputs, drcc \in {"TRUE", "FALSE"} :
    /\ cfg = [NoCfg EXCEPT !.DRY_RUN = dry, !.TABLESPACES = ts, !.DRCC_REGION = drcc]
    /\ env = [NewEnv EXCEPT !.TABLESPACES = ts]
    /\ psFile = IF dry THEN NoFile ELSE NewProjectData
    /\ startPs = psFile
    /\ trace = IF dry THEN <<>> ELSE <<"create_state">>
    /\ dbScn = 0
    /\ pc = "get_tablespaces"
    /\ out = {}
    /\ facts = NoFacts
    /\ realm = NoRealm
    /\ plan = NoPlan
    /\ scan = NoScan
    /\ dirs = NoDirs
    /\ procs = NoProcs
  /\ procs = NoProcs
    /\ bundle = {}
  /\ bundle = {}
    /\ backups = <<>>
    /\ manifest = NoManifest
    /\ halt = "none"

\* the steps of that one invocation
CountNext ==
  \/ GetTablespaces
  \/ GetSchemas
  \/ ValidateOlsPolicies
  \/ ValidateRedactionPolicies
  \/ ValidateDvrealm
  \/ ValidateSchemas
  \/ CheckTablespacesList
  \/ ValidateTablespaces
  \/ CheckStorageBuckets
  \/ CreateBackupWallet
  \/ GatherData
  \/ CreateDirectory
  \/ ExportTdeKeys
  \/ CopyWallet
  \/ GetScn
  \/ GetChannel
  \/ ReadFinalBackupComplete
  \/ BackupEncrypted
  \/ BackupUnencrypted
  \/ WriteFinalBackupComplete
  \/ ExportSchema
  \/ ExportTablespaces
  \/ CreateManifest
  \/ CreateBundle
  \/ Cleanup
  \/ UploadBundle
  \/ DryRunExport

CountSpec == CountInit /\ [][CountNext]_vars

\* ------------------------------------------------- channel construction inputs

\* PARALLELISM of tts-backup-env.txt: missing, not an integer, 0, negative,
\* small, and around MAX_CHANNELS
ParallelismInputs ==
  {"", "abc", "-1", "0", "1", "2", "3", "5", "199", "200", "201", "202"}

\* answers of nproc (get_cpu_count gives 1 when nproc fails)
NprocInputs == {1, 2, 3, 4, 5, 8, 12, 13, 16, 17, 64}

\* instances of the database as host:instance, the current host first, last or
\* missing, the empty property, and two hosts whose instances bear one name
TopologyInputs ==
  { EmptyTopology,
    << <<"h1", "i1">> >>,
    << <<"h1", "i1">>, <<"h2", "i1">> >>,
    << <<"h2", "i2">> >>,
    << <<"h1", "i1">>, <<"h2", "i2">> >>,
    << <<"h2", "i2">>, <<"h3", "i3">>, <<"h1", "i1">> >> }

ChannelSpace ==
  [PARALLELISM : ParallelismInputs, nproc : NprocInputs,
   CLUSTER_MODE : {"TRUE", "FALSE", "false"}, host_array : TopologyInputs]

\* a first, level-0 invocation over tablespaces A (encrypted) and B, as
\* tts_src_get_scn leaves it: the channels are built next
ChannelInit ==
  /\ cfg = [NoCfg EXCEPT !.DB_VERSION = "19c", !.STORAGE_TYPE = "FSS"]
  /\ env = [NewEnv EXCEPT !.TABLESPACES = <<"A", "B">>, !.requested = <<"A", "B">>,
                          !.encrypted_tablespaces = <<"A">>,
                          !.unencrypted_tablespaces = <<"B">>,
                          !.SCNS_ARRAY = <<1, 2>>]
  /\ psFile = NewProjectData
  /\ startPs = psFile
  /\ trace = <<"create_state", "get_tablespaces", "get_schemas", "ols", "redaction",
               "dvrealm", "validate_schemas", "validate_tablespaces", "gather_data",
               "create_directory", "tde_export", "get_scn">>
  /\ dbScn = 2
  /\ pc = "get_channel"
  /\ out = {}
  /\ facts = NoFacts
  /\ realm = NoRealm
  /\ plan = NoPlan
  /\ scan = NoScan
  /\ dirs = NoDirs
  /\ procs = NoProcs
  /\ bundle = {}
  /\ backups = <<>>
  /\ manifest = NoManifest
  /\ halt = "none"

GetChannelAny == GetChannelFrom(ChannelSpace)

\* the rest of that invocation
ChannelNext ==
  \/ GetChannelAny
  \/ ReadFinalBackupComplete
  \/ BackupEncrypted
  \/ BackupUnencrypted
  \/ WriteFinalBackupComplete
  \/ ExportSchema
  \/ ExportTablespaces
  \/ CreateManifest
  \/ CreateBundle
  \/ Cleanup
  \/ UploadBundle

ChannelSpec == ChannelInit /\ [][ChannelNext]_vars

\* ------------------------------------------------------ command run inputs

\* return codes of the RMAN and expdp processes
ReturnCodes == {0, 1, 2, 5}

\* log files the commands leave behind: unreadable, empty, a warning only, the
\* two export marker texts on different lines, an RMAN error after a plain
\* line, an export fatal error after a warning, plain lines only
LogSpace ==
  { [readable |-> FALSE, lines |-> <<>>],
    NoLog,
    [readable |-> TRUE, lines |-> << {"RMAN-", "WARNING"} >>],
    [readable |-> TRUE, lines |-> << {"EXPORT"}, {"stopped due to fatal error"} >>],
    [readable |-> TRUE, lines |-> << {}, {"RMAN-"} >>],
    [readable |-> TRUE, lines |-> << {"RMAN-", "WARNING"},
                                     {"EXPORT", "stopped due to fatal error"} >>],
    [readable |-> TRUE, lines |-> << {}, {}, {} >>] }

RunSpace == [returncode : ReturnCodes, log : LogSpace]

BackupEncryptedAny == BackupEncryptedFrom(RunSpace)

BackupUnencryptedAny == BackupUnencryptedFrom(RunSpace)

ExportSchemaAny == ExportSchemaFrom(RunSpace)

ExportTablespacesAny == ExportTablespacesFrom(RunSpace)

\* the invocation of ChannelInit from the channel construction on, its commands
\* ending with any return code over any of the logs
LogNext ==
  \/ GetChannel
  \/ ReadFinalBackupComplete
  \/ BackupEncryptedAny
  \/ BackupUnencryptedAny
  \/ WriteFinalBackupComplete
  \/ ExportSchemaAny
  \/ ExportTablespacesAny
  \/ CreateManifest
  \/ CreateBundle
  \/ Cleanup
  \/ UploadBundle

LogSpec == ChannelInit /\ [][LogNext]_vars

\* ------------------------------------------------- schema scope, any SCHEMAS

\* SCHEMAS not configured, or naming schemas of the database
SchemaSpace == { <<"">>, <<"SA", "SB">> }

GetSchemasAny == GetSchemasFrom(SchemaSpace)

SchemaNext ==
  \/ GetSchemasAny
  \/ pc /= "get_schemas" /\ Next

SchemaSpec == Init /\ [][SchemaNext]_vars

\* ------------------------------------------------ _validate_tablespaces_list

\* entries of a tablespace list: a name in upper and lower case and with a
\* leading blank, a second name, an empty entry and a blank one
DriftTokens == {"A", "a", " A", "B", "b", "", " "}

\* longest list drawn
MaxNames == 3

\* the lists of 1 to n entries
DriftLists(n) == UNION { [1..k -> DriftTokens] : k \in 1..n }

\* an incremental invocation of level 1 as the schema validation leaves it: the
\* configured list and the list of the project file are any two lists
DriftInit ==
  \E TABLESPACES \in DriftLists(MaxNames), level0_ts_array \in DriftLists(MaxNames - 1) :
    /\ cfg = [NoCfg EXCEPT !.TABLESPACES = TABLESPACES]
    /\ psFile = [NewProjectData EXCEPT !.backup_level = 1, !.incr_scn = 1,
                                       !.tablespaces = level0_ts_array]
    /\ env = [NewEnv EXCEPT !.TABLESPACES = TABLESPACES, !.requested = TABLESPACES,
                            !.BACKUP_LEVEL = 1, !.INCR_SCN = 1,
                            !.level0_tablespaces = level0_ts_array]
    /\ startPs = psFile
    /\ trace = <<"read_state", "get_tablespaces", "get_schemas", "ols", "redaction",
                 "dvrealm", "validate_schemas">>
    /\ dbScn = 1
    /\ pc = "drift"
    /\ out = {}
    /\ facts = NoFacts
    /\ realm = NoRealm
    /\ plan = NoPlan
    /\ scan = NoScan
    /\ dirs = NoDirs
    /\ procs = NoProcs
    /\ bundle = {}
    /\ backups = <<>>
    /\ manifest = NoManifest
    /\ halt = "none"

DriftNext == CheckTablespacesList

DriftSpec == DriftInit /\ [][DriftNext]_vars

\* ------------------------------------- Environment._setup_backup_directories

\* invocations followed
MaxRuns == 4

\* seconds of the clock `date +%d-%b-%Y_%H_%M_%S` reads
MaxClock == 2

\* names in the project directory for one backup level: the working directory
\* <PROJECT>_LEVEL_<n>[_DRY_RUN] (kind "work"), <dir>_FAILED (kind "failed",
\* n = 0) and <dir>_FAILED_<n>, <dir>_<now> (kind "stamped", n = now), and the
\* bundle files of the same names with .tgz
Path(dry, kind, n) == [dry |-> dry, kind |-> kind, n |-> n]

\* lines 468-474: the first of <dir>_FAILED, <dir>_FAILED_1, ... that does not
\* exist, tried from counter k on
RECURSIVE FailedDir(_, _, _)
FailedDir(tree, dry, k) ==
  IF Path(dry, "failed", k) \in DOMAIN tree
    THEN FailedDir(tree, dry, k + 1)
    ELSE Path(dry, "failed", k)

\* shutil.move(tts_dir_path, failed_dir), lines 466-477
MoveAside(tree, dry) ==
  LET work == Path(dry, "work", 0)
      failed_dir == FailedDir(tree, dry, 0)
  IN  IF work \in DOMAIN tree
        THEN [p \in (DOMAIN tree \ {work}) \cup {failed_dir} |->
                IF p = failed_dir THEN tree[work] ELSE tree[p]]
        ELSE tree

\* os.makedirs(tts_dir_path, exist_ok=True), line 499, and the files invocation
\* `run` then puts into the directory
MakeDirs(tree, tts_dir_path, run) ==
  [p \in DOMAIN tree \cup {tts_dir_path} |->
     IF p = tts_dir_path
       THEN (IF p \in DOMAIN tree THEN tree[p] ELSE {}) \cup {run}
       ELSE tree[p]]

\* _setup_backup_directories (lines 457-503) of invocation `run`, in mode dry,
\* reading the clock at `now`
SetupBackupDirectories(d, dry, now, run) ==
  LET moved == MoveAside(d.tree, dry)
      stamped == Path(dry, "work", 0) \in d.bundles
      tts_dir_path == IF stamped THEN Path(dry, "stamped", now) ELSE Path(dry, "work", 0)
  IN  [d EXCEPT !.tree = MakeDirs(moved, tts_dir_path, run),
                !.now = now, !.runs = run, !.run = run,
                !.TTS_DIR_PATH = tts_dir_path,
                !.TTS_BUNDLE_FILE = tts_dir_path,
                !.fresh = tts_dir_path \notin DOMAIN moved]

\* state of the main sequence, which the directory functions do not touch
mainVars ==
  <<psFile, dbScn, pc, cfg, env, trace, out, facts, realm, plan, scan, backups,
    manifest, startPs, halt, bundle, procs>>

\* an invocation for the level starts: Environment.__init__, line 406
DirSetup ==
  /\ dirs.run = 0
  /\ dirs.runs < MaxRuns
  /\ \E dry \in BOOLEAN, now \in dirs.now..MaxClock :
       dirs' = SetupBackupDirectories(dirs, dry, now, dirs.runs + 1)
  /\ UNCHANGED mainVars

\* the invocation ends without a bundle: it failed, or it was a dry run, which
\* either failed or got to "Dry Run Completed Successfully" (line 2255); no
\* statement of the dry-run branch removes the working directory
DirRunEnds ==
  /\ dirs.run /= 0
  /\ \E ok \in (IF dirs.TTS_DIR_PATH.dry THEN BOOLEAN ELSE {FALSE}) :
       dirs' = [dirs EXCEPT !.run = 0, !.kept = @ \cup {dirs.run},
                            !.completed = IF ok THEN @ \cup {dirs.run} ELSE @]
  /\ UNCHANGED mainVars

\* tts_src_create_bundle (lines 1916-1938) of a non-dry-run invocation: the
\* bundle file is written and the working directory removed with rm -rf; an
\* invocation that gets this far has run its backups, which takes it into a
\* later second
DirCreateBundle ==
  /\ dirs.run /= 0
  /\ ~dirs.TTS_DIR_PATH.dry
  /\ dirs.now < MaxClock
  /\ dirs' = [dirs EXCEPT
                !.now = @ + 1,
                !.bundles = @ \cup {dirs.TTS_BUNDLE_FILE},
                !.tree = [p \in DOMAIN dirs.tree \ {dirs.TTS_DIR_PATH} |-> dirs.tree[p]],
                !.run = 0]
  /\ UNCHANGED mainVars

\* invocations that use the names of one backup level of a project, one after
\* the other
DirNext ==
  \/ DirSetup
  \/ DirRunEnds
  \/ DirCreateBundle

DirSpec == Init /\ [][DirNext]_vars

\* ------------------------------------------ two invocations at the same time

\* state of the single invocation and of the directories, which the two
\* invocations below do not use
soloVars ==
  <<pc, cfg, env, trace, out, facts, realm, plan, scan, backups, manifest,
    startPs, halt, bundle, dirs>>

\* Environment._create_manifest_file of invocation p, lines 438-455: nothing
\* keeps it from starting while the other invocation runs
ProcLoad(p) ==
  /\ procs[p].pc = "idle"
  /\ CASE psFile.st = "absent" ->
            /\ psFile' = NewProjectData
            /\ procs' = [procs EXCEPT ![p] = [NoProc EXCEPT !.pc = "get_scn"]]
       [] psFile.st = "ok" ->
            /\ UNCHANGED psFile
            /\ procs' = [procs EXCEPT ![p] = [NoProc EXCEPT
                                                !.pc = "get_scn",
                                                !.BACKUP_LEVEL = psFile.backup_level,
                                                !.INCR_SCN = psFile.incr_scn]]
       [] OTHER ->
            /\ UNCHANGED psFile
            /\ procs' = [procs EXCEPT ![p] = [NoProc EXCEPT !.pc = "halted"]]
  /\ UNCHANGED <<dbScn, soloVars>>

\* tts_src_get_scn of invocation p (main, lines 2147-2153)
ProcGetScn(p) ==
  /\ procs[p].pc = "get_scn"
  /\ \/ /\ dbScn + 2 <= MaxScn
        /\ dbScn' = dbScn + 2
        /\ procs' = [procs EXCEPT ![p].SCNS_ARRAY = <<dbScn + 1, dbScn + 2>>,
                                  ![p].pc = "backup"]
     \/ /\ procs' = [procs EXCEPT ![p].pc = "halted"]
        /\ UNCHANGED dbScn
  /\ UNCHANGED <<psFile, soloVars>>

\* tts_src_backup_tablespaces of invocation p (main, lines 2178-2190)
ProcBackup(p) ==
  /\ procs[p].pc = "backup"
  /\ \E DB_VERSION \in DbVersions, failed \in BOOLEAN :
       procs' = [procs EXCEPT
                   ![p].backups = Append(@, [BACKUP_LEVEL |-> procs[p].BACKUP_LEVEL,
                                             incremental_clause |->
                                               IncrementalClause(DB_VERSION,
                                                                 procs[p].BACKUP_LEVEL,
                                                                 procs[p].INCR_SCN)]),
                   ![p].pc = IF failed THEN "halted" ELSE "commit"]
  /\ UNCHANGED <<persist, soloVars>>

\* tts_src_create_manifest of invocation p, lines 1810-1880
ProcCommit(p) ==
  /\ procs[p].pc = "commit"
  /\ \E ro \in {"true", "false"} :
       psFile' = AdvancedProjectData(procs[p].BACKUP_LEVEL,
                                     NextScn(ro, procs[p].SCNS_ARRAY), <<"A">>, "FALSE")
  /\ procs' = [procs EXCEPT ![p].pc = "done"]
  /\ UNCHANGED <<dbScn, soloVars>>

\* invocation p is over; its terminal can start another
ProcEnds(p) ==
  /\ procs[p].pc \in {"done", "halted"}
  /\ procs' = [procs EXCEPT ![p] = NoProc]
  /\ UNCHANGED <<persist, soloVars>>

ProcNext ==
  \E p \in Procs :
    \/ ProcLoad(p)
    \/ ProcGetScn(p)
    \/ ProcBackup(p)
    \/ ProcCommit(p)
    \/ ProcEnds(p)

ProcSpec == Init /\ [][ProcNext]_vars

\* ------------------------------------------------------------- properties

\* the step the running invocation executed last
Last(s) == IF s = <<>> THEN "none" ELSE s[Len(s)]

\* the step was entered in the running invocation
Ran(name) == \E i \in DOMAIN trace : trace[i] = name

\* a failing step ends the invocation, so it is the last one entered
Failed(name) == pc = "halted" /\ Last(trace) = name

Completed(name) == Ran(name) /\ ~Failed(name)

\* the invocation asked for a set other than the one frozen at level 0
Drift ==
  /\ ~DryRun
  /\ env.BACKUP_LEVEL >= 1
  /\ Ran("drift")
  /\ NormSet(env.requested) /= NormSet(env.level0_tablespaces)

\* backup_level, incr_scn and tablespaces of a readable project file
Progress(ps) == <<ps.st, ps.backup_level, ps.incr_scn, ps.tablespaces>>

\* the running invocation is a final backup
Final == cfg.FINAL_BACKUP /= "unread" /\ IsFinal(cfg.FINAL_BACKUP)

C2_FrozenSet ==
  (startPs.st = "ok" /\ startPs.backup_level >= 1 /\ psFile.st = "ok") =>
    NormSet(psFile.tablespaces) = NormSet(startPs.tablespaces)

\* a level >= 1 run that asked for another set has rewritten the project file
C2_Witness ==
  /\ Drift
  /\ psFile.st = "ok"
  /\ psFile.backup_level = 2
  /\ startPs.backup_level = 1

\* C3 (fencing), as the code has it: a final invocation (FINAL_BACKUP TRUE in any
\* letter case) that finds final_backup_complete persisted issues no data backup
\* and goes from the read of the flag straight to the schema export.
C3_Fencing ==
  (~DryRun /\ startPs.st = "ok" /\ startPs.final_backup_complete /\ Final) =>
    /\ backups = <<>>
    /\ pc \notin {"backup_encrypted", "backup_unencrypted", "write_flag"}
    /\ ~Ran("backup_encrypted") /\ ~Ran("backup_unencrypted") /\ ~Ran("write_flag")
    /\ Last(trace) = "fence" => pc = "export_schema"

\* a fenced final run has reached the schema export
C3_Witness ==
  /\ ~DryRun /\ startPs.st = "ok" /\ startPs.final_backup_complete /\ Final
  /\ Completed("export_schema")
  /\ backups = <<>>

\* C3 as stated: no invocation that finds final_backup_complete persisted issues
\* a data backup, whatever its configuration.
C3_AnyConfiguration ==
  (startPs.st = "ok" /\ startPs.final_backup_complete) => backups = <<>>

\* C4 as stated: when manifest.log is written and the write of the project file
\* fails, the project file still holds the level and the watermark the run
\* started with.
C4_AtMostOnce ==
  (manifest.written /\ Failed("create_manifest")) =>
    /\ psFile.st = "ok"
    /\ psFile.backup_level = startPs.backup_level
    /\ psFile.incr_scn = startPs.incr_scn

\* C5 as stated: a non-dry-run invocation that halts on a failure leaves
\* backup_level, incr_scn and tablespaces of the project file as it found them.
C5_NoAdvanceOnFailure ==
  (~DryRun /\ pc = "halted") => Progress(psFile) = Progress(startPs)

\* C6 as stated: the project file of a final run is gone only once the upload
\* of the bundle has succeeded.
C6_DeleteAfterUpload ==
  (~DryRun /\ startPs.st = "ok" /\ psFile.st = "absent") =>
    (pc = "done" /\ Ran("upload"))

\* the data backup phase of the running invocation is over: it was skipped on
\* the persisted flag, or each non-empty subset was backed up
DataPhaseOver ==
  /\ Completed("fence")
  /\ \/ SkipBackups(cfg.FINAL_BACKUP, env.final_backup_complete)
     \/ /\ HasEntries(env.encrypted_tablespaces) => Completed("backup_encrypted")
        /\ HasEntries(env.unencrypted_tablespaces) => Completed("backup_unencrypted")
        /\ pc \notin {"backup_encrypted", "backup_unencrypted"}

\* both metadata exports of a final run are through
ExportsOver == Final => (Completed("export_schema") /\ Completed("export_tablespaces"))

C8_WatermarkBeforeBackup ==
  /\ backups /= <<>> =>
       /\ env.SCNS_ARRAY /= <<>>
       /\ \E j \in DOMAIN trace :
            /\ trace[j] = "get_scn"
            /\ j + 3 <= Len(trace)
            /\ trace[j + 1] = "get_channel"
            /\ trace[j + 2] = "fence"
            /\ trace[j + 3] \in {"backup_encrypted", "backup_unencrypted"}
            /\ \A i \in 1..(j + 2) :
                 trace[i] \notin {"backup_encrypted", "backup_unencrypted"}
  /\ Failed("get_scn") => (halt = "exit1" /\ backups = <<>>)
  /\ (~DryRun /\ psFile.st = "ok" /\ psFile.backup_level > startPs.backup_level) =>
       \E k \in DOMAIN env.SCNS_ARRAY : env.SCNS_ARRAY[k] = psFile.incr_scn

\* a run has backed up both subsets and persisted the watermark it captured
C8_Witness ==
  /\ Len(backups) = 2
  /\ pc = "done"
  /\ psFile.st = "ok"
  /\ psFile.backup_level = startPs.backup_level + 1
  /\ psFile.incr_scn = env.SCNS_ARRAY[1]

\* C9 (redaction gate), as the code has it: on a database other than 11g, a
\* non-dry-run invocation that meets redaction policies without consent halts
\* with exit status 1 at the redaction check, before any backup command.
C9_RedactionGate ==
  (~DryRun /\ facts.redaction /\ cfg.DB_VERSION /= "11g") =>
    /\ Failed("redaction")
    /\ halt = "exit1"
    /\ backups = <<>>
    /\ out \in {{"redaction_error"}, {"Redaction Policies validation failed."}}

\* the gate has stopped a run on the consent error
C9_Witness ==
  /\ ~DryRun /\ facts.redaction /\ cfg.DB_VERSION = "19c"
  /\ pc = "halted"
  /\ out = {"redaction_error"}

\* C9 as stated: any non-dry-run invocation that meets redaction policies
\* without consent halts.
C9_AnyVersion ==
  (~DryRun /\ facts.redaction) => pc = "halted"

\* what a policy gate prints when its query fails
QueryFailure ==
  { "OLS Policies validation failed.", "Redaction Policies validation failed.",
    "Database Vault protection check failed." }

RealmErrors ==
  { "dvrealm_cred_error", "dvrealm_authorize_error",
    "Unable to check schemas protected by Database Vault realms" }

\* the realm check just met active realms / a usable, authorizing credential
RealmsActive == realm.met /\ \A i \in 1..3 : realm.dvrealm_array[i] > 0
RealmRefused == ~realm.creds \/ ~realm.loginOk \/ realm.authorized = 0

\* C11 (database-vault realm gate), as the code has it: on a database other than
\* 11g, a non-dry-run invocation that meets active realms halts with exit status
\* 1 at the database-vault check when the secondary credential is missing,
\* cannot log in, or reports 0 authorized schemas; with a count of 1 or more the
\* realm part prints no error, and with realms not active the credential is not
\* asked for: the check then halts only on the protection consent or a failed
\* query.
C11_RealmGate ==
  (~DryRun /\ realm.met /\ cfg.DB_VERSION /= "11g") =>
    /\ (RealmsActive /\ RealmRefused) => (Failed("dvrealm") /\ halt = "exit1")
    /\ (~RealmsActive \/ ~RealmRefused) =>
         /\ out \cap RealmErrors = {}
         /\ pc = "halted" =>
              out \cap {"dv_error", "Database Vault protection check failed.",
                        "Unable to check Database Vault realms."} /= {}

\* the gate has let a run with exactly one authorized schema through
C11_Witness ==
  /\ ~DryRun /\ cfg.DB_VERSION = "19c"
  /\ RealmsActive /\ realm.creds /\ realm.loginOk /\ realm.authorized = 1
  /\ pc = "validate_schemas"

\* C11 as stated: every non-dry-run invocation that meets active realms and a
\* missing, failing or unauthorized secondary credential halts.
C11_AnyVersion ==
  (~DryRun /\ RealmsActive /\ RealmRefused) => pc = "halted"

\* C12 as stated: an invocation, dry-run or not, whose tablespace count exceeds
\* the ceiling (23, or 93 in a DRCC region) issues no backup command and does
\* not run to completion.
C12_CountCeiling ==
  TsCount(env.TABLESPACES) > TsLimit(cfg.DRCC_REGION) =>
    (backups = <<>> /\ pc /= "done")

\* C13 as stated, for the schema validation script: a dry-run invocation in
\* which the validation script of a schema fails is not halted by it.
C13_DryRunDegradation ==
  (DryRun /\ Last(trace) = "validate_schemas" /\ "Schema validations failed." \in out) =>
    pc /= "halted"

\* the steps of main's backup branch (lines 2132-2245) and the project-file
\* steps of Environment
BackupBranch ==
  {"create_state", "read_state", "tde_export", "wallet_copy", "get_scn",
   "get_channel", "fence", "backup_encrypted", "backup_unencrypted",
   "write_flag", "export_schema", "export_tablespaces", "create_manifest",
   "create_bundle", "cleanup", "upload"}

\* C14 (dry-run frame): an invocation with DRY_RUN = TRUE enters no step that
\* creates, reads or writes the project file, captures no watermark, issues no
\* backup command and no schema or tablespace metadata export of the backup
\* branch, writes no manifest, builds no bundle and uploads nothing; the project
\* file, with its backup_level, incr_scn and tablespaces, is what it was when
\* the invocation started.
C14_DryRunFrame ==
  DryRun =>
    /\ \A i \in DOMAIN trace : trace[i] \notin BackupBranch
    /\ psFile = startPs
    /\ env.SCNS_ARRAY = NewEnv.SCNS_ARRAY
    /\ backups = <<>>
    /\ manifest = NoManifest

\* a dry run over a project that already has a level-0 backup on file went
\* through its validation export and completed
C14_Witness ==
  /\ DryRun
  /\ pc = "done"
  /\ Ran("dry_export")
  /\ psFile.st = "ok"
  /\ psFile.backup_level >= 1

\* ceil(a / b), by its defining inequalities
CeilDiv(a, b) == CHOOSE k \in 0..a : (k - 1) * b < a /\ a <= k * b

\* every element of the topology is host:instance
WellFormed(host_array) == \A i \in DOMAIN host_array : Len(host_array[i]) = 2

\* channels of CHANNEL_STRING that connect to host h
ChannelsOn(h) ==
  Cardinality({ i \in DOMAIN env.CHANNEL_STRING : env.CHANNEL_STRING[i].host_name = h })

\* the channel construction just made ran in non-cluster mode
NonCluster == Upper(plan.CLUSTER_MODE) = "FALSE"

\* elements of the topology that are given channels: all of them in cluster
\* mode, those of the current host otherwise
Served ==
  { i \in DOMAIN env.host_array :
      Len(env.host_array[i]) = 2 /\ (NonCluster => env.host_array[i][1] = plan.current_host) }

\* C15 (default channel count): after a channel construction with PARALLELISM 0
\* on a machine of c >= 1 CPUs, the per-host count is min(ceil(c / 4), 4), which
\* lies in 1..4; over a well-formed topology every host that is given channels
\* has exactly that many; with 2 CPUs and the current host as the only instance
\* the channel string holds exactly 1 channel.
C15_DefaultChannels ==
  (plan.met /\ plan.PARALLELISM = 0 /\ plan.nproc >= 1) =>
    /\ plan.CPU_COUNT = (IF CeilDiv(plan.nproc, 4) < 4 THEN CeilDiv(plan.nproc, 4) ELSE 4)
    /\ plan.CPU_COUNT \in 1..4
    /\ WellFormed(env.host_array) =>
         \A i \in Served : ChannelsOn(env.host_array[i][1]) = plan.CPU_COUNT
    /\ (plan.nproc = 2 /\ env.host_array = << <<"h1", "i1">> >>) =>
         Len(env.CHANNEL_STRING) = 1

\* 17 CPUs give ceil(17 / 4) = 5, cut to 4 channels on each of two hosts
C15_Witness ==
  /\ plan.met
  /\ plan.PARALLELISM = 0
  /\ plan.nproc = 17
  /\ plan.CPU_COUNT = 4
  /\ Len(env.host_array) = 2
  /\ Len(env.CHANNEL_STRING) = 8

\* C16 (global channel cap): the channel string never holds more than
\* MAX_CHANNELS channels; a construction whose per-host count times the hosts
\* it serves exceeds MAX_CHANNELS stops at exactly MAX_CHANNELS channels,
\* returns True, reports the channel string as constructed, and the run goes on.
C16_GlobalCap ==
  /\ Len(env.CHANNEL_STRING) <= MAX_CHANNELS
  /\ (/\ plan.met
      /\ WellFormed(env.host_array)
      /\ plan.CPU_COUNT * Cardinality(Served) > MAX_CHANNELS) =>
       /\ Len(env.CHANNEL_STRING) = MAX_CHANNELS
       /\ plan.returned
       /\ "Channel string constructed" \in out
       /\ pc = "fence"

\* PARALLELISM 201 over three hosts in cluster mode: 67 rounds of 3 would be 201
C16_Witness ==
  /\ plan.met
  /\ plan.PARALLELISM = 201
  /\ ~NonCluster
  /\ Len(env.host_array) = 3
  /\ plan.CPU_COUNT * Cardinality(Served) = 201
  /\ Len(env.CHANNEL_STRING) = MAX_CHANNELS

\* the current host is an instance of the topology
CurrentHostListed ==
  \E i \in DOMAIN env.host_array :
    Len(env.host_array[i]) = 2 /\ env.host_array[i][1] = plan.current_host

C18_AllocationFatal ==
  (Ran("get_channel") /\ env.CHANNEL_STRING = <<>>) => backups = <<>>

\* position of a step in the running invocation's trace (0: not entered)
Pos(name) == IF Ran(name) THEN CHOOSE i \in DOMAIN trace : trace[i] = name ELSE 0

\* a backup command for the subset was issued in the running invocation
Issued(backup_type) == \E i \in DOMAIN backups : backups[i].backup_type = backup_type

\* the subset's log file is among the RMAN log files of the invocation
Logged(log_file) == \E i \in DOMAIN env.RMAN_LOGFILES : env.RMAN_LOGFILES[i] = log_file

\* C19 (data-subset sequencing): in every invocation an encrypted backup command
\* precedes every unencrypted one; the unencrypted backup is entered, with the
\* encrypted subset non-empty, only after the encrypted backup was issued, went
\* through and recorded its log file; a subset without entries has no backup
\* step, no backup command and no log file; with the encrypted subset empty the
\* step after the channel construction and the re-read of the project file is
\* the unencrypted backup.
C19_SubsetSequencing ==
  /\ \A i, j \in DOMAIN backups :
       (backups[i].backup_type = "encrypted" /\ backups[j].backup_type = "unencrypted")
         => i < j
  /\ (Ran("backup_encrypted") /\ Ran("backup_unencrypted")) =>
       Pos("backup_encrypted") < Pos("backup_unencrypted")
  /\ (Ran("backup_unencrypted") /\ HasEntries(env.encrypted_tablespaces)) =>
       /\ Ran("backup_encrypted")
       /\ Issued("encrypted")
       /\ Logged("backup_encrypted.log")
  /\ ~HasEntries(env.encrypted_tablespaces) =>
       ~Ran("backup_encrypted") /\ ~Issued("encrypted") /\ ~Logged("backup_encrypted.log")
  /\ ~HasEntries(env.unencrypted_tablespaces) =>
       ~Ran("backup_unencrypted") /\ ~Issued("unencrypted")
         /\ ~Logged("backup_unencrypted.log")
  /\ (Ran("backup_unencrypted") /\ ~HasEntries(env.encrypted_tablespaces)) =>
       /\ Pos("fence") = Pos("get_channel") + 1
       /\ Pos("backup_unencrypted") = Pos("fence") + 1

\* no encrypted tablespace, an unencrypted one: its backup went through right
\* after the channels were built, and it is the only command and the only log
C19_Witness ==
  /\ ~HasEntries(env.encrypted_tablespaces)
  /\ HasEntries(env.unencrypted_tablespaces)
  /\ Completed("backup_unencrypted")
  /\ Pos("backup_unencrypted") = Pos("get_channel") + 2
  /\ Len(backups) = 1
  /\ env.RMAN_LOGFILES = <<"backup_unencrypted.log">>

MarkerInLog ==
  \E i \in DOMAIN scan.log.lines :
    \/ "RMAN-" \in scan.log.lines[i] /\ "WARNING" \notin scan.log.lines[i]
    \/ {"EXPORT", "stopped due to fatal error"} \subseteq scan.log.lines[i]

\* the stage just run was reported failed: main printed its failure and exit(1)
StageFailed == pc = "halted" /\ halt = "exit1"

\* C21 (log scan is authoritative): after a backup or metadata-export command,
\* the stage is failed whenever its log cannot be read or has an error marker
\* line, whatever the return code of the process; it goes on as successful
\* exactly when the log is readable, has no marker line, and the return code is
\* one _execute_command takes for success (0 or 5).
C21_LogScanAuthoritative ==
  scan.met =>
    /\ (~scan.log.readable \/ MarkerInLog) => StageFailed
    /\ ~StageFailed <=>
         (scan.log.readable /\ ~MarkerInLog /\ scan.returncode \in {0, 5})

\* the export process returned 0 over a log whose second line reports a fatal
\* export error after an RMAN warning: the export stage is failed
C21_Witness ==
  /\ scan.met
  /\ scan.returncode = 0
  /\ scan.log.readable
  /\ Len(scan.log.lines) = 2
  /\ "WARNING" \in scan.log.lines[1]
  /\ "EXPORT" \in scan.log.lines[2]
  /\ Failed("export_tablespaces")

\* C22 as stated: every invocation starts in a working directory that did not
\* exist before, no directory of the level holds the files of two invocations,
\* and the files of every invocation that ended without a bundle are still in
\* some directory.
C22_FailedDirPreserved ==
  /\ dirs.fresh
  /\ \A p \in DOMAIN dirs.tree : Cardinality(dirs.tree[p]) <= 1
  /\ \A r \in dirs.kept : \E p \in DOMAIN dirs.tree : r \in dirs.tree[p]

\* C23 as stated: an invocation that halted on a fatal failure, a raised
\* validation error included, ends with a non-zero exit status.
C23_NonZeroExit ==
  pc = "halted" => ExitStatus /= 0

\* the step changes the backup_level a readable project file holds
LevelChanges ==
  /\ psFile.st = "ok"
  /\ psFile'.st = "ok"
  /\ psFile'.backup_level /= psFile.backup_level

\* the manifest step of a non-dry-run invocation goes through
ManifestCommit == ~DryRun /\ pc = "create_manifest" /\ pc' = "create_bundle"

\* C24 (level advancement): the manifest step of a non-dry-run invocation that
\* started at level L records L in manifest.log and persists L + 1, and the
\* invocation that completes still has both; the backup_level of the project
\* file changes at no other step and by nothing but + 1, and a project file a
\* failed write left unreadable is never given a level again: until the file is
\* removed the persisted level never decreases.
C24_LevelAdvancement ==
  /\ [](  (~DryRun /\ pc = "done") =>
            /\ manifest.written
            /\ manifest.backup_level = startPs.backup_level
            /\ psFile.st = "ok" => psFile.backup_level = startPs.backup_level + 1)
  /\ [][ /\ ManifestCommit =>
              /\ manifest'.written
              /\ manifest'.backup_level = startPs.backup_level
              /\ psFile.backup_level = startPs.backup_level
              /\ psFile'.st = "ok"
              /\ psFile'.backup_level = startPs.backup_level + 1
         /\ LevelChanges =>
              /\ ManifestCommit
              /\ psFile'.backup_level = psFile.backup_level + 1
         /\ psFile.st = "corrupt" => psFile'.st = "corrupt"
       ]_vars

\* a second level was committed: the run started at level 1 and persisted 2
C24_Witness ==
  /\ ~DryRun
  /\ pc = "done"
  /\ manifest.backup_level = 1
  /\ psFile.st = "ok"
  /\ psFile.backup_level = 2

\* an invocation starts: Environment(...) is the one step taken between runs
RunStarts == pc \in {"idle", "done", "halted"} /\ pc' /= pc

\* C25 (project file lifetime): a non-dry-run invocation that finds no project
\* file creates it, and nothing else brings the file into being; the file is
\* removed only by the cleanup step of a non-dry-run final backup, which is
\* entered once the manifest and the bundle of that run are made.
C25_ProjectFileLifetime ==
  [][ /\ (RunStarts /\ ~DryRun' /\ psFile.st = "absent") => psFile' = NewProjectData
      /\ (psFile.st = "absent" /\ psFile'.st /= "absent") => (RunStarts /\ ~DryRun')
      /\ (psFile.st /= "absent" /\ psFile'.st = "absent") =>
           /\ pc = "cleanup"
           /\ ~DryRun
           /\ Final
           /\ manifest.written
           /\ Completed("create_manifest")
           /\ Completed("create_bundle")
    ]_vars

\* the cleanup of a final run removed the project file the run had read
C25_Witness ==
  /\ ~DryRun
  /\ Final
  /\ Completed("cleanup")
  /\ startPs.backup_level >= 1
  /\ psFile.st = "absent"

\* C26 (bundle contents): the bundle a non-dry-run invocation has made holds
\* manifest.log; it holds schema.dmp and tablespace.dmp when the run is a final
\* backup, in which case both exports of the run went through, and neither of
\* them otherwise; it holds the TDE keys file exactly when the encrypted subset
\* has an entry, in which case the key export of the run went through; it holds
\* cwallet.sso exactly when STORAGE_TYPE is OBJECT_STORAGE, in which case the
\* run created the backup wallet.
C26_BundleContents ==
  (~DryRun /\ Completed("create_bundle")) =>
    /\ manifest.written
    /\ "manifest.log" \in bundle
    /\ IF Final
         THEN /\ DumpFiles \subseteq bundle
              /\ Completed("export_schema")
              /\ Completed("export_tablespaces")
         ELSE DumpFiles \cap bundle = {}
    /\ TDE_KEYS_FILE \in bundle <=> HasEntries(env.encrypted_tablespaces)
    /\ TDE_KEYS_FILE \in bundle <=> Completed("tde_export")
    /\ "cwallet.sso" \in bundle <=> cfg.STORAGE_TYPE = "OBJECT_STORAGE"
    /\ "cwallet.sso" \in bundle <=> Completed("create_wallet")

\* the bundle of a final backup to object storage with an encrypted tablespace
C26_Witness ==
  /\ ~DryRun
  /\ Completed("create_bundle")
  /\ Final
  /\ bundle = {"manifest.log", "backup_encrypted.log", "cwallet.sso",
               "schema.dmp", "tablespace.dmp", TDE_KEYS_FILE}

\* C27 as stated: when SCHEMAS is not configured, the schema scope of an
\* invocation that is past the drift check is the owner set of the tablespaces
\* it goes on with (the frozen level-0 list when the requested one drifted), and
\* the manifest lists the owners of the tablespaces it lists.
C27_SchemaScope ==
  cfg.SCHEMAS = <<"">> =>
    /\ Ran("validate_tablespaces") => env.SCHEMAS = OwnersInTablespaces(env.TABLESPACES)
    /\ manifest.written => manifest.schemas = OwnersInTablespaces(manifest.tablespaces)

\* place of a step among the stages of the backup branch of main, lines
\* 2147-2246, in program order; 0 for a step that is none of them
StageRank(name) ==
  CASE name = "get_scn" -> 1
    [] name = "get_channel" -> 2
    [] name = "backup_encrypted" -> 3
    [] name = "backup_unencrypted" -> 4
    [] name = "export_schema" -> 5
    [] name = "export_tablespaces" -> 6
    [] name = "create_manifest" -> 7
    [] name = "create_bundle" -> 8
    [] name = "upload" -> 9
    [] OTHER -> 0

\* C28 (forward-only sequencing): the stages an invocation has entered stand in
\* the order SCN capture, channels, encrypted backup, unencrypted backup, schema
\* export, tablespace export, manifest, bundle, upload, each of them once at
\* most; a running invocation only adds the step it takes to those it has taken;
\* an invocation that halted takes no further step: what follows is the start
\* of another invocation.
C28_ForwardOnly ==
  /\ [](\A j \in DOMAIN trace :
          StageRank(trace[j]) > 0 =>
            \A i \in 1..(j - 1) : StageRank(trace[i]) < StageRank(trace[j]))
  /\ [][ /\ pc \notin {"idle", "done", "halted"} =>
              \/ trace' = trace
              \/ trace' = Append(trace, pc)
         /\ pc = "halted" =>
              /\ pc' \in {"get_tablespaces", "halted"}
              /\ trace' \in {<<>>, <<"create_state">>, <<"read_state">>}
       ]_vars

\* a final backup went through all nine stages
C28_Witness ==
  /\ pc = "done"
  /\ { StageRank(trace[i]) : i \in DOMAIN trace } \ {0} = 1..9

\* invocation p has written the project file
Committed(p) == procs[p].pc = "done"

\* C29 (unprotected concurrent runs): an invocation can start whatever the other
\* one is doing, and the write that ends an invocation puts into the project
\* file the level that invocation read, plus one, and one of the SCNs it
\* captured, whatever the file holds by then; two invocations that read the same
\* level and watermark therefore leave the level advanced by one.
C29_NoMutualExclusion ==
  /\ [](\A p \in Procs : procs[p].pc = "idle" => ENABLED ProcLoad(p))
  /\ [][\A p \in Procs :
          (procs[p].pc = "commit" /\ procs'[p].pc = "done") =>
            /\ psFile'.st = "ok"
            /\ psFile'.backup_level = procs[p].BACKUP_LEVEL + 1
            /\ psFile'.incr_scn \in Range(procs[p].SCNS_ARRAY)
       ]_vars

\* both invocations read the same level and watermark, both ran their backup
\* with them, both wrote the project file, and the level is one above
C29_Witness ==
  /\ Committed(1)
  /\ Committed(2)
  /\ procs[1].BACKUP_LEVEL = procs[2].BACKUP_LEVEL
  /\ procs[1].INCR_SCN = procs[2].INCR_SCN
  /\ procs[1].backups /= <<>>
  /\ procs[1].backups = procs[2].backups
  /\ psFile.st = "ok"
  /\ psFile.backup_level = procs[1].BACKUP_LEVEL + 1

\* the step changes the watermark a readable project file holds
WatermarkChanges ==
  /\ psFile.st = "ok"
  /\ psFile'.st = "ok"
  /\ psFile'.incr_scn /= psFile.incr_scn

\* C30 (incremental chain): with DB_VERSION other than 11g every backup command
\* of an invocation reads "incremental from scn <s>", s being the incr_scn the
\* invocation found in the project file, and 0 at level 0; the incr_scn of the
\* project file is replaced only by the manifest step that takes the level one
\* up, and by an SCN the same invocation captured: the watermark of level N is
\* the one the commit of level N - 1 persisted, and an SCN captured by an
\* invocation that did not get to its manifest step reaches no later command.
C30_IncrementalChain ==
  /\ []( /\ \A i \in DOMAIN backups :
              cfg.DB_VERSION /= "11g" =>
                /\ backups[i].incremental_clause.kind = "from scn"
                /\ backups[i].incremental_clause.n = startPs.incr_scn
                /\ startPs.backup_level = 0 => backups[i].incremental_clause.n = 0
         /\ (psFile.st = "ok" /\ psFile.backup_level = 0) => psFile.incr_scn = 0 )
  /\ [][ WatermarkChanges =>
           /\ ManifestCommit
           /\ psFile'.incr_scn \in Range(env.SCNS_ARRAY)
           /\ psFile'.backup_level = psFile.backup_level + 1
       ]_vars

\* a level-1 backup command of a 19c database starts from the SCN the level-0
\* run persisted
C30_Witness ==
  /\ backups /= <<>>
  /\ cfg.DB_VERSION = "19c"
  /\ startPs.backup_level = 1
  /\ startPs.incr_scn >= 1
  /\ backups[1].incremental_clause = [kind |-> "from scn", n |-> startPs.incr_scn]

\* the upload step of the running invocation did not store the bundle
UploadFailed ==
  /\ trace /= <<>>
  /\ Last(trace) = "upload"
  /\ pc \in {"done", "halted"}
  /\ \/ CpError \in out
     \/ "Error occurred during the upload_bundle" \in out

\* C31 as stated: an invocation whose upload did not store the bundle, on
\* either backend, ends with a non-zero exit status and prints no success
\* message.
C31_UploadFailureFatal ==
  UploadFailed =>
    /\ pc = "halted"
    /\ ExitStatus /= 0
    /\ out \cap {"Bundle uploaded successfully", "Bundle copied successfully"} = {}

\* C32 as stated: when PARALLELISM is missing from the configuration, or is not
\* an integer, the channel construction runs with PARALLELISM 0: the step does
\* not fail and the channel count per instance is a quarter of the CPUs, rounded
\* up, 4 at most.
C32_DefaultParallelism ==
  (plan.text /= "unread" /\ ~IsInteger(plan.text)) =>
    /\ ~Failed("get_channel")
    /\ plan.met
    /\ plan.PARALLELISM = 0
    /\ plan.CPU_COUNT = Min(CeilDiv(plan.nproc, 4), 4)

\* C33 as stated: a working directory is moved to a "failed" name only when the
\* invocation that owned it ended in failure: no directory under a "failed" name
\* holds the files of an invocation that completed, a completed dry run
\* included.
C33_OnlyFailedRelocated ==
  \A p \in DOMAIN dirs.tree :
    p.kind = "failed" => dirs.tree[p] \cap dirs.completed = {}

\* the state a manifest commit leaves: manifest.log and the project file of the
\* run are written and the bundle is next
JustCommitted == manifest.written /\ pc = "create_bundle"

C35_FrozenSetAvailable ==
  (psFile.st = "ok" /\ psFile.backup_level >= 1) =>
    /\ psFile.tablespaces /= <<>>
    /\ HasEntries(psFile.tablespaces)

\* the write of final_backup_complete alone has just been made into a project
\* file of level 1 or more
C35_Witness ==
  /\ trace /= <<>>
  /\ Last(trace) = "write_flag"
  /\ psFile.st = "ok"
  /\ psFile.backup_level >= 1
  /\ psFile.final_backup_complete

\* every entry of list a that is not blank is, stripped and in upper case, an
\* entry of list b
NamesWithin(a, b) ==
  \A i \in DOMAIN a :
    Strip(a[i]) /= "" =>
      \E j \in DOMAIN b : Strip(b[j]) /= "" /\ Upper(Strip(b[j])) = Upper(Strip(a[i]))

\* two lists that name the same tablespaces, whatever the order, letter case,
\* blanks, repetitions and empty entries
SameNames(a, b) == NamesWithin(a, b) /\ NamesWithin(b, a)

\* the drift check of an incremental run is made in this step
DriftChecked == pc = "drift" /\ env.BACKUP_LEVEL /= 0 /\ pc' = "validate_tablespaces"

\* C36: the drift check of an incremental run compares the names of the
\* configured list and of the level-0 list as sets, stripped and in upper case:
\* lists that name the same tablespaces draw no warning and the configured list
\* is kept; any other configured list draws the warning and is replaced by the
\* level-0 list.
C36_DriftDetection ==
  [][ DriftChecked =>
        IF SameNames(env.TABLESPACES, env.level0_tablespaces)
          THEN /\ env'.TABLESPACES = env.TABLESPACES
               /\ DriftWarning \notin out'
          ELSE /\ env'.TABLESPACES = Join(env.level0_tablespaces)
               /\ DriftWarning \in out' ]_vars

\* a configured list that repeats a name, in lower case and with a blank, and
\* has an empty entry went through the check without warning
C36_Witness ==
  /\ trace /= <<>>
  /\ Last(trace) = "drift"
  /\ env.TABLESPACES = <<"a", " A", "">>
  /\ env.level0_tablespaces = <<"A">>
  /\ DriftWarning \notin out

\* the r-th element of the topology, in its order, that is given channels
ServedAt(r) == CHOOSE i \in Served : Cardinality({ j \in Served : j < i }) = r - 1

\* the instance names of the topology are pairwise distinct
DistinctInstances ==
  \A i, j \in DOMAIN env.host_array :
    env.host_array[i][2] = env.host_array[j][2] => i = j

\* C37 (balanced channel plan): the channels of a plan go round the
\* participating hosts in the order of the topology, round n giving channel
\* number n to one host after the other, so that the channel counts of any two
\* participating hosts differ by at most one, the cap of MAX_CHANNELS cutting
\* the last round short included; when the instance names are distinct no two
\* channels have the same identifier c_<instance>_<n>.
C37_BalancedPlan ==
  (plan.met /\ WellFormed(env.host_array) /\ Served /= {}) =>
    LET chan == env.CHANNEL_STRING
        H == Cardinality(Served)
    IN  /\ \A k \in DOMAIN chan :
             LET ele == env.host_array[ServedAt(((k - 1) % H) + 1)]
             IN  /\ chan[k].host_name = ele[1]
                 /\ chan[k].instance_name = ele[2]
                 /\ chan[k].c = ((k - 1) \div H) + 1
        /\ \A i, j \in Served :
             ChannelsOn(env.host_array[i][1]) - ChannelsOn(env.host_array[j][1]) \in {-1, 0, 1}
        /\ DistinctInstances =>
             \A k, l \in DOMAIN chan :
               (chan[k].instance_name = chan[l].instance_name /\ chan[k].c = chan[l].c) => k = l

\* a plan over three hosts that the cap cuts short in its last round: the last
\* host of the topology has one channel less than the first
C37_Witness ==
  /\ plan.met
  /\ Len(env.host_array) = 3
  /\ WellFormed(env.host_array)
  /\ DistinctInstances
  /\ Len(env.CHANNEL_STRING) = MAX_CHANNELS
  /\ ChannelsOn(env.host_array[1][1]) = ChannelsOn(env.host_array[3][1]) + 1

\* C38 as stated: whatever the letter case in which FINAL_BACKUP says true, the
\* project file written by the manifest commit of a final run carries
\* final_backup_complete.
C38_FlagSurvivesCommit ==
  (JustCommitted /\ Final) => psFile.final_backup_complete

\* the data subset was backed up in the running invocation: its command was
\* issued, ended with return code 0 or 5 over a log without error lines, and
\* its log file was recorded
BackedUp(backup_type, log_file) ==
  /\ Completed(IF backup_type = "encrypted" THEN "backup_encrypted" ELSE "backup_unencrypted")
  /\ Issued(backup_type)
  /\ Logged(log_file)

\* the project file held final_backup_complete when the invocation started
FlagAtStart == startPs.st = "ok" /\ startPs.final_backup_complete

\* C39 (fencing flag soundness): a project file with final_backup_complete that
\* did not have it when the invocation started belongs to an invocation with
\* FINAL_BACKUP true in which every subset with entries, encrypted and
\* unencrypted, was backed up; and the write that sets the flag after the
\* backups leaves backup_level, incr_scn and tablespaces as they were.
C39_FlagSoundness ==
  /\ (psFile.st = "ok" /\ psFile.final_backup_complete /\ ~FlagAtStart) =>
       /\ ~DryRun
       /\ Final
       /\ HasEntries(env.encrypted_tablespaces) =>
            BackedUp("encrypted", "backup_encrypted.log")
       /\ HasEntries(env.unencrypted_tablespaces) =>
            BackedUp("unencrypted", "backup_unencrypted.log")
  /\ (trace /= <<>> /\ Last(trace) = "write_flag" /\ psFile.st = "ok") =>
       Progress(psFile) = Progress(startPs)

\* a final run over an encrypted and an unencrypted subset has just persisted
\* the flag, which the project file did not have when the run started
C39_Witness ==
  /\ trace /= <<>>
  /\ Last(trace) = "write_flag"
  /\ pc = "export_schema"
  /\ psFile.final_backup_complete
  /\ ~FlagAtStart
  /\ HasEntries(env.encrypted_tablespaces)
  /\ HasEntries(env.unencrypted_tablespaces)
  /\ startPs.backup_level >= 1
====
